---------------------------- MODULE Spec2Model ----------------------------
(***************************************************************************)
(* The trading engine's event loop (src/src/main.rs) with the components   *)
(* it drives: the exchange connection, the heartbeat task, the market-data *)
(* aggregator, the trend-following strategy and the risk manager.          *)
(* The components are also driven on their own, call by call: the order   *)
(* book under BookSpec, the aggregator under AggSpec and, for any window   *)
(* size, under AnyWindowSpec, the risk manager under RiskSpec and, with    *)
(* quantities of the whole u64 range, under WideRiskSpec, the two          *)
(* strategies under SmaSpec and TrendSpec, the binary codec                *)
(* (src/src/exchange/binary.rs) under CodecSpec, and the text channel      *)
(* against an echoing peer under ChannelSpec.                              *)
(*                                                                         *)
(* Conventions.  An Option<T> is a sequence of length at most one: None is *)
(* <<>>, Some(x) is <<x>>.  Prices are small integers.  The risk limits    *)
(* that the code keeps as f64 are kept in hundredths: stop_loss_percentage *)
(* is a number of hundredths and max_loss_per_trade is compared after      *)
(* multiplying both sides by 100.  A mean is kept as [sum, n] and two      *)
(* means are compared by cross multiplication.                             *)
(***************************************************************************)
EXTENDS Integers, Sequences, FiniteSets

(***************************************************************************)
(* Bounds of the model.                                                    *)
(***************************************************************************)
MaxTicks == 3          \* market-data lines the venue sends in a run
MaxHbSignals == 1      \* heartbeats under way at a time (signal, message or ack)
MaxTime == 20          \* seconds a run of TimedSpec lasts
MaxTimedTicks == 2     \* market-data lines the venue sends in a run of TimedSpec
MaxChunk == 2          \* lines one read of the socket may return together
MaxPrice == 3          \* prices are 1..MaxPrice
TickVolume == 10       \* the volume every tick carries
MaxPayload == 3            \* bytes of payload in a binary message
MaxMessage == 2            \* characters of a message given to send_message
MaxInFlight == 5           \* bytes the two directions of the socket hold together
NarrowBits == 8            \* bits of the i32 a quantity is narrowed to, for 32
MaxTrendTicks == 6         \* ticks given to a TrendFollowingStrategy driven on its own
MaxSmaTicks == 4           \* ticks given to a SimpleMovingAverageStrategy driven on its own
SmaWindow == 3             \* its window_size when the model scales it down
MaxFed == 4                \* ticks fed to an aggregator driven on its own
MaxBookId == 2         \* order ids of BookSpec are 1..MaxBookId
MaxBookPrice == 1      \* order prices of BookSpec are 1..MaxBookPrice
MaxResting == 2        \* entries the price levels hold at most in BookSpec

(***************************************************************************)
(* Configuration (config.toml), fixed for a run.                           *)
(***************************************************************************)
LongPeriod == 2            \* strategy.long_period
ShortPeriod == 1           \* strategy.short_period
AggregationWindow == 2     \* market_data.aggregation_window
MaxPositionSize == 15      \* risk.max_position_size
MaxLossPerTrade100 == 250  \* risk.max_loss_per_trade, in hundredths
StopLossPct == 10          \* risk.stop_loss_percentage, in hundredths
InitialCapital == 1000     \* risk.initial_capital
\* exchange.max_retries and exchange.heartbeat_interval (seconds)
Configs == {[max_retries |-> 3, heartbeat_interval |-> 5],
            [max_retries |-> 5, heartbeat_interval |-> 15]}

(***************************************************************************)
(* Constants of the program.                                               *)
(***************************************************************************)
MAX_ATTEMPTS == 5          \* connection.rs: max_attempts
CONNECT_TIMEOUT_SECS == 5  \* main.rs: timeout around the initial connect
RETRY_SLEEP_SECS == 2      \* connection.rs: sleep between two attempts
RECV_TIMEOUT_SECS == 10    \* main.rs: timeout around receive_message
RESPONSE_TIMEOUT_SECS == 5 \* main.rs: timeout around the confirmation read
HB_CHANNEL_CAPACITY == 32  \* main.rs: mpsc::channel(32)
SMA_WINDOW == 10           \* strategy_1.rs: window_size set by new()
SMA_QUANTITY == 1          \* strategy_1.rs: quantity of every order
TF_QUANTITY == 10          \* strategy_2.rs: quantity of every order
AGG_WINDOW == 3            \* aggregator.rs (tests): MarketDataAggregator::new(3, ..)
READ_BUFFER == 1024        \* connection.rs: the buffer of one read
BOOK_QUANTITY == 10        \* order_book.rs (test): quantity of order1
BOOK_AMENDED == 20         \* order_book.rs (test): quantity order1 is amended to

None == <<>>
Some(x) == <<x>>
IsSome(o) == Len(o) = 1
Unwrap(o) == o[1]

Prices == 1..MaxPrice

(***************************************************************************)
(* Lines on the wire, venue to engine.                                     *)
(***************************************************************************)
TickLine(p, v) == [type |-> "tick", price |-> p, volume |-> v, for |-> 0]
AckLine == [type |-> "ack", price |-> 0, volume |-> 0, for |-> 0]
ExecutedLine(id) == [type |-> "executed", price |-> 0, volume |-> 0, for |-> id]
RejectedLine(id) == [type |-> "rejected", price |-> 0, volume |-> 0, for |-> id]

(***************************************************************************)
(* Messages the engine writes.                                             *)
(***************************************************************************)
SubscribeMsg == [type |-> "SUBSCRIBE_MARKET_DATA", order |-> None, id |-> 0]
HeartbeatMsg == [type |-> "HEARTBEAT", order |-> None, id |-> 0]
PlaceOrderMsg(o, id) == [type |-> "PLACE_ORDER", order |-> Some(o), id |-> id]

(***************************************************************************)
(* data.trim() == "HEARTBEAT_ACK": the text of one read is exactly one     *)
(* acknowledgement line.                                                   *)
(***************************************************************************)
IsHeartbeatAck(data) == Len(data) = 1 /\ data[1].type = "ack"

(***************************************************************************)
(* MarketDataParser::parse with the JSON format: the text of one read      *)
(* parses iff it is one JSON object with price and volume (serde_json      *)
(* rejects anything after the object except white space).                  *)
(***************************************************************************)
Parse(data) ==
    IF Len(data) = 1 /\ data[1].type = "tick"
    THEN Some([price |-> data[1].price, volume |-> data[1].volume])
    ELSE None

(***************************************************************************)
(* response.contains("EXECUTED")                                           *)
(***************************************************************************)
ContainsExecuted(data) == \E i \in 1..Len(data) : data[i].type = "executed"

(***************************************************************************)
(* Vec::push followed by remove(0) when the length exceeds the limit.      *)
(***************************************************************************)
PushBounded(s, x, limit) ==
    LET t == Append(s, x) IN IF Len(t) > limit THEN Tail(t) ELSE t

RECURSIVE SumSeq(_)
SumSeq(s) == IF s = <<>> THEN 0 ELSE s[1] + SumSeq(Tail(s))

\* The elements of a sequence.
Range(s) == {s[i] : i \in DOMAIN s}

Max2(a, b) == IF a > b THEN a ELSE b
Min2(a, b) == IF a < b THEN a ELSE b
Abs(x) == IF x < 0 THEN -x ELSE x

(***************************************************************************)
(* `quantity as i32`: the low bits of the quantity, read as a signed       *)
(* number.  The model's i32 has NarrowBits bits instead of 32; quantities  *)
(* below 2^(NarrowBits - 1) are unchanged by it.                           *)
(***************************************************************************)
AsI32(q) ==
    LET low == q % (2 ^ NarrowBits)
    IN IF low >= 2 ^ (NarrowBits - 1) THEN low - 2 ^ NarrowBits ELSE low

(***************************************************************************)
(* MarketDataAggregator                                                    *)
(***************************************************************************)
\* Seeded fault: new accepts any weights.
WeightsFitUnchecked(window_size, weights) == TRUE

\* new's validation: FALSE is the panic "The number of weights must equal the
\* window size."
WeightsFit(window_size, weights) ==
    IsSome(weights) => Len(Unwrap(weights)) = window_size

AggregatorNew(window_size, weights) ==
    [price_window |-> <<>>, window_size |-> window_size, sma |-> None,
     total_volume |-> 0, high_price |-> None, low_price |-> None,
     weights |-> weights]

RECURSIVE WeightedSum(_, _, _)
WeightedSum(window, weights, i) ==
    IF i > Len(window) THEN 0
    ELSE window[i] * weights[i] + WeightedSum(window, weights, i + 1)

\* The average as a fraction [sum, n]; the weighted sum is not divided.
CalculateSma(a) ==
    IF a.price_window = <<>> THEN None
    ELSE IF IsSome(a.weights)
         THEN Some([sum |-> WeightedSum(a.price_window, Unwrap(a.weights), 1), n |-> 1])
         ELSE Some([sum |-> SumSeq(a.price_window), n |-> Len(a.price_window)])

\* Seeded fault: the window is never trimmed to window_size.
AggregatorUpdateKeepsAll(a, tick) ==
    LET b == [a EXCEPT !.price_window = Append(a.price_window, tick.price)]
    IN [b EXCEPT !.sma = CalculateSma(b),
                 !.total_volume = a.total_volume + tick.volume]

\* Seeded fault: high and low are taken over the window, not over the run.
AggregatorUpdateWindowExtremes(a, tick) ==
    LET w == PushBounded(a.price_window, tick.price, a.window_size)
        b == [a EXCEPT !.price_window = w]
    IN [b EXCEPT !.sma = CalculateSma(b),
                 !.total_volume = a.total_volume + tick.volume,
                 !.high_price = Some(CHOOSE x \in {w[i] : i \in DOMAIN w} :
                                       \A i \in DOMAIN w : w[i] <= x),
                 !.low_price = Some(CHOOSE x \in {w[i] : i \in DOMAIN w} :
                                      \A i \in DOMAIN w : x <= w[i])]

AggregatorUpdate(a, tick) ==
    LET w == PushBounded(a.price_window, tick.price, a.window_size)
        b == [a EXCEPT !.price_window = w]
    IN [b EXCEPT !.sma = CalculateSma(b),
                 !.total_volume = a.total_volume + tick.volume,
                 !.high_price = IF IsSome(a.high_price)
                                THEN Some(Max2(Unwrap(a.high_price), tick.price))
                                ELSE Some(tick.price),
                 !.low_price = IF IsSome(a.low_price)
                               THEN Some(Min2(Unwrap(a.low_price), tick.price))
                               ELSE Some(tick.price)]

\* get_sma
GetSma(a) == a.sma

(***************************************************************************)
(* SimpleMovingAverageStrategy.  new() sets window_size to 10; evaluate    *)
(* reads only the field, so the model also runs it with a smaller window.  *)
(***************************************************************************)
SimpleMovingAverageNew(window_size) ==
    [window_size |-> window_size, prices |-> <<>>, symbol |-> "SYMBOL"]

\* Seeded fault: the strategy decides before its window is full.
SimpleMovingAverageEvaluateNoWarmUp(s, market_data) ==
    LET prices == PushBounded(s.prices, market_data.price, s.window_size)
        u == [s EXCEPT !.prices = prices]
        order(side) == [symbol |-> s.symbol, price |-> market_data.price,
                        quantity |-> SMA_QUANTITY, side |-> side]
    IN IF market_data.price * Len(prices) > SumSeq(prices)
       THEN [strategy |-> u, order |-> Some(order("Buy"))]
       ELSE IF market_data.price * Len(prices) < SumSeq(prices)
            THEN [strategy |-> u, order |-> Some(order("Sell"))]
       ELSE [strategy |-> u, order |-> None]

\* evaluate: the strategy after the tick and the order it emits, if any.
\* price > sum / len is compared as price * len > sum.
SimpleMovingAverageEvaluate(s, market_data) ==
    LET prices == PushBounded(s.prices, market_data.price, s.window_size)
        u == [s EXCEPT !.prices = prices]
        order(side) == [symbol |-> s.symbol, price |-> market_data.price,
                        quantity |-> SMA_QUANTITY, side |-> side]
    IN IF Len(prices) < s.window_size THEN [strategy |-> u, order |-> None]
       ELSE IF market_data.price * Len(prices) > SumSeq(prices)
            THEN [strategy |-> u, order |-> Some(order("Buy"))]
       ELSE IF market_data.price * Len(prices) < SumSeq(prices)
            THEN [strategy |-> u, order |-> Some(order("Sell"))]
       ELSE [strategy |-> u, order |-> None]

(***************************************************************************)
(* TrendFollowingStrategy                                                  *)
(***************************************************************************)
TrendFollowingNew(long_period, short_period) ==
    [long_period |-> long_period, short_period |-> short_period,
     long_sma |-> <<>>, short_sma |-> <<>>,
     long_prices |-> <<>>, short_prices |-> <<>>, position |-> 0]

Mean(prices) == [sum |-> SumSeq(prices), n |-> Len(prices)]
MeanGreater(x, y) == x.sum * y.n > y.sum * x.n

UpdateSma(s, price) ==
    LET lp == PushBounded(s.long_prices, price, s.long_period)
        sp == PushBounded(s.short_prices, price, s.short_period)
    IN [s EXCEPT !.long_prices = lp,
                 !.long_sma = PushBounded(s.long_sma, Mean(lp), s.long_period),
                 !.short_prices = sp,
                 !.short_sma = PushBounded(s.short_sma, Mean(sp), s.short_period)]

\* Seeded fault: the tracked position is not looked at.
TrendFollowingEvaluateRepeats(s, tick) ==
    LET u == UpdateSma(s, tick.price)
        ready == ~(Len(u.long_sma) < u.long_period \/ Len(u.short_sma) < u.short_period)
        long_trend == u.long_sma[Len(u.long_sma)]
        short_trend == u.short_sma[Len(u.short_sma)]
        order(side) == [symbol |-> "AAPL", price |-> tick.price,
                        quantity |-> TF_QUANTITY, side |-> side]
    IN IF ~ready THEN [strategy |-> u, order |-> None]
       ELSE IF MeanGreater(short_trend, long_trend)
            THEN [strategy |-> [u EXCEPT !.position = 1], order |-> Some(order("Buy"))]
       ELSE IF MeanGreater(long_trend, short_trend)
            THEN [strategy |-> [u EXCEPT !.position = -1], order |-> Some(order("Sell"))]
       ELSE [strategy |-> u, order |-> None]

\* Seeded fault: the strategy decides before its windows are full.
TrendFollowingEvaluateNoWarmUp(s, tick) ==
    LET u == UpdateSma(s, tick.price)
        long_trend == u.long_sma[Len(u.long_sma)]
        short_trend == u.short_sma[Len(u.short_sma)]
        order(side) == [symbol |-> "AAPL", price |-> tick.price,
                        quantity |-> TF_QUANTITY, side |-> side]
    IN IF MeanGreater(short_trend, long_trend) /\ u.position <= 0
       THEN [strategy |-> [u EXCEPT !.position = 1], order |-> Some(order("Buy"))]
       ELSE IF MeanGreater(long_trend, short_trend) /\ u.position >= 0
            THEN [strategy |-> [u EXCEPT !.position = -1], order |-> Some(order("Sell"))]
       ELSE [strategy |-> u, order |-> None]

\* evaluate: the strategy after the tick and the order it emits, if any.
TrendFollowingEvaluate(s, tick) ==
    LET u == UpdateSma(s, tick.price)
        ready == ~(Len(u.long_sma) < u.long_period \/ Len(u.short_sma) < u.short_period)
        long_trend == u.long_sma[Len(u.long_sma)]
        short_trend == u.short_sma[Len(u.short_sma)]
        order(side) == [symbol |-> "AAPL", price |-> tick.price,
                        quantity |-> TF_QUANTITY, side |-> side]
    IN IF ~ready THEN [strategy |-> u, order |-> None]
       ELSE IF MeanGreater(short_trend, long_trend) /\ u.position <= 0
            THEN [strategy |-> [u EXCEPT !.position = 1], order |-> Some(order("Buy"))]
       ELSE IF MeanGreater(long_trend, short_trend) /\ u.position >= 0
            THEN [strategy |-> [u EXCEPT !.position = -1], order |-> Some(order("Sell"))]
       ELSE [strategy |-> u, order |-> None]

(***************************************************************************)
(* RiskManager                                                             *)
(***************************************************************************)
RiskManagerNew(max_position_size, max_loss_per_trade, stop_loss_percentage, initial_capital) ==
    [max_position_size |-> max_position_size,
     max_loss_per_trade |-> max_loss_per_trade,
     stop_loss_percentage |-> stop_loss_percentage,
     initial_capital |-> initial_capital,
     current_capital |-> initial_capital,
     current_position |-> 0]

\* Seeded fault: the position limit never changes the quantity.
AdjustedQuantityUnclamped(r, order) == order.quantity

\* Seeded fault: the quantity is always what is left up to the limit.
AdjustedQuantityToLimit(r, order) ==
    IF order.side = "Buy"
    THEN Max2(r.max_position_size - r.current_position, 0)
    ELSE Max2(r.max_position_size + r.current_position, 0)

AdjustedQuantity(r, order) ==
    LET potential_position ==
            IF order.side = "Buy"
            THEN r.current_position + AsI32(order.quantity)
            ELSE r.current_position - AsI32(order.quantity)
    IN IF Abs(potential_position) > r.max_position_size
       THEN IF order.side = "Buy"
            THEN Max2(r.max_position_size - r.current_position, 0)
            ELSE Max2(r.max_position_size + r.current_position, 0)
       ELSE order.quantity

\* Seeded fault: the loss of the trade is not looked at.
EvaluateOrderWithoutLossLimit(r, order, current_price) ==
    LET adjusted_quantity == AdjustedQuantity(r, order)
    IN IF adjusted_quantity = 0 THEN None
       ELSE Some([order EXCEPT !.quantity = adjusted_quantity])

\* Seeded fault: an order of quantity 0 is approved.
EvaluateOrderWithZero(r, order, current_price) ==
    LET adjusted_quantity == AdjustedQuantity(r, order)
        potential_loss100 == current_price * adjusted_quantity * r.stop_loss_percentage
    IN IF potential_loss100 > r.max_loss_per_trade THEN None
       ELSE Some([order EXCEPT !.quantity = adjusted_quantity])

\* evaluate_order: Some(approved order) or None.
EvaluateOrder(r, order, current_price) ==
    LET adjusted_quantity == AdjustedQuantity(r, order)
        potential_loss100 == current_price * adjusted_quantity * r.stop_loss_percentage
    IN IF potential_loss100 > r.max_loss_per_trade THEN None
       ELSE IF adjusted_quantity = 0 THEN None
       ELSE Some([order EXCEPT !.quantity = adjusted_quantity])

\* Seeded fault: a Sell is added to the position like a Buy.
UpdatePositionIgnoresSide(r, order) ==
    [r EXCEPT !.current_position = r.current_position + AsI32(order.quantity)]

UpdatePosition(r, order) ==
    IF order.side = "Buy"
    THEN [r EXCEPT !.current_position = r.current_position + AsI32(order.quantity)]
    ELSE [r EXCEPT !.current_position = r.current_position - AsI32(order.quantity)]


(***************************************************************************)
(* BinaryMessage (exchange/binary.rs): one byte of message type, the       *)
(* length of the data as a little-endian u32, the data.  A byte is a       *)
(* number in 0..255, a buffer a sequence of bytes, a Result either Ok(x)   *)
(* or Err.                                                                 *)
(***************************************************************************)
Ok(x) == [ok |-> TRUE, value |-> <<x>>]
Err == [ok |-> FALSE, value |-> <<>>]

BinaryMessageNew(message_type, data) == [message_type |-> message_type, data |-> data]

\* write_u32::<LittleEndian>(n as u32): the four low bytes of n, lowest first.
U32LittleEndian(n) ==
    <<n % 256, (n \div 256) % 256, (n \div 65536) % 256, (n \div 16777216) % 256>>

\* Seeded fault: the length is read highest byte first.
ReadU32BigEndian(b) == b[4] + 256 * b[3] + 65536 * b[2] + 16777216 * b[1]

\* read_u32::<LittleEndian> on four bytes.
ReadU32LittleEndian(b) == b[1] + 256 * b[2] + 65536 * b[3] + 16777216 * b[4]

BinarySerialize(m) ==
    Ok(<<m.message_type>> \o U32LittleEndian(Len(m.data)) \o m.data)

\* read_u8, read_u32 and read_exact fail when the buffer ends too early;
\* bytes after the data are not looked at.
BinaryDeserialize(buffer) ==
    IF Len(buffer) < 1 THEN Err
    ELSE IF Len(buffer) < 5 THEN Err
    ELSE LET data_length == ReadU32LittleEndian(SubSeq(buffer, 2, 5))
         IN IF Len(buffer) - 5 < data_length THEN Err
            ELSE Ok(BinaryMessageNew(buffer[1], SubSeq(buffer, 6, 5 + data_length)))

(***************************************************************************)
(* OrderBook.  bids and asks map a price to the orders resting at it, in   *)
(* arrival order (BTreeMap<price, Vec<Order>>); orders_by_id maps an id to *)
(* a copy of the order (HashMap<u64, Order>; Order is Copy).  A map is a   *)
(* function whose domain is the set of its keys.                           *)
(***************************************************************************)
EmptyMap == [k \in {} |-> k]
MapPut(m, k, v) == [x \in DOMAIN m \cup {k} |-> IF x = k THEN v ELSE m[x]]
MapRemove(m, k) == [x \in DOMAIN m \ {k} |-> m[x]]

OrderBookNew == [bids |-> EmptyMap, asks |-> EmptyMap, orders_by_id |-> EmptyMap]

\* Seeded fault: a new order goes to the front of its level.
LevelPushFront(levels, order) ==
    MapPut(levels, order.price,
           IF order.price \in DOMAIN levels
           THEN <<order>> \o levels[order.price]
           ELSE <<order>>)

\* entry(price).or_insert_with(Vec::new).push(order)
LevelPush(levels, order) ==
    MapPut(levels, order.price,
           IF order.price \in DOMAIN levels
           THEN Append(levels[order.price], order)
           ELSE <<order>>)

AddOrder(b, order) ==
    LET pushed == IF order.side = "Bid"
                  THEN [b EXCEPT !.bids = LevelPush(b.bids, order)]
                  ELSE [b EXCEPT !.asks = LevelPush(b.asks, order)]
    IN [pushed EXCEPT !.orders_by_id = MapPut(b.orders_by_id, order.id, order)]

\* Seeded fault: a level emptied by retain is left in the map.
LevelRetainKeepsEmpty(levels, price, order_id) ==
    IF price \notin DOMAIN levels THEN levels
    ELSE MapPut(levels, price, SelectSeq(levels[price], LAMBDA o : o.id # order_id))

\* orders.retain(|o| o.id != order_id), and the level is removed if empty.
LevelRetain(levels, price, order_id) ==
    IF price \notin DOMAIN levels THEN levels
    ELSE LET kept == SelectSeq(levels[price], LAMBDA o : o.id # order_id)
         IN IF kept = <<>> THEN MapRemove(levels, price)
            ELSE MapPut(levels, price, kept)

\* Seeded fault: the order leaves its level but stays in the index.
RemoveOrderKeepsIndex(b, order_id) ==
    IF order_id \in DOMAIN b.orders_by_id
    THEN LET order == b.orders_by_id[order_id]
         IN [book |-> IF order.side = "Bid"
                      THEN [b EXCEPT !.bids = LevelRetain(b.bids, order.price, order_id)]
                      ELSE [b EXCEPT !.asks = LevelRetain(b.asks, order.price, order_id)],
             ret |-> Some(order)]
    ELSE [book |-> b, ret |-> None]

\* remove_order: the book afterwards and the value returned.
RemoveOrder(b, order_id) ==
    IF order_id \in DOMAIN b.orders_by_id
    THEN LET order == b.orders_by_id[order_id]
             unindexed == [b EXCEPT !.orders_by_id = MapRemove(b.orders_by_id, order_id)]
         IN [book |-> IF order.side = "Bid"
                      THEN [unindexed EXCEPT !.bids = LevelRetain(b.bids, order.price, order_id)]
                      ELSE [unindexed EXCEPT !.asks = LevelRetain(b.asks, order.price, order_id)],
             ret |-> Some(order)]
    ELSE [book |-> b, ret |-> None]

\* The positions of the level at `price` that hold an order with this id.
LevelMatches(levels, price, order_id) ==
    IF price \notin DOMAIN levels THEN {}
    ELSE {i \in 1..Len(levels[price]) : levels[price][i].id = order_id}

\* Seeded fault: the amended order goes to the back of its level.
LevelAmendRequeues(levels, price, order_id, new_quantity) ==
    LET first == CHOOSE i \in LevelMatches(levels, price, order_id) :
                    \A j \in LevelMatches(levels, price, order_id) : i <= j
        level == levels[price]
    IN MapPut(levels, price,
              Append(SubSeq(level, 1, first - 1) \o SubSeq(level, first + 1, Len(level)),
                     [level[first] EXCEPT !.quantity = new_quantity]))

\* for o in orders.iter_mut(): the first order with the id gets the quantity.
LevelAmend(levels, price, order_id, new_quantity) ==
    LET first == CHOOSE i \in LevelMatches(levels, price, order_id) :
                    \A j \in LevelMatches(levels, price, order_id) : i <= j
    IN MapPut(levels, price, [levels[price] EXCEPT ![first].quantity = new_quantity])

Unit == <<>>

\* update_order: the book afterwards and the value returned.
UpdateOrder(b, order_id, new_quantity) ==
    IF order_id \in DOMAIN b.orders_by_id
    THEN LET order == b.orders_by_id[order_id]
             levels == IF order.side = "Bid" THEN b.bids ELSE b.asks
         IN IF LevelMatches(levels, order.price, order_id) = {}
            THEN [book |-> b, ret |-> None]
            ELSE [book |-> IF order.side = "Bid"
                           THEN [b EXCEPT !.bids = LevelAmend(b.bids, order.price,
                                                              order_id, new_quantity)]
                           ELSE [b EXCEPT !.asks = LevelAmend(b.asks, order.price,
                                                              order_id, new_quantity)],
                  ret |-> Some(Unit)]
    ELSE [book |-> b, ret |-> None]

\* OrderBook::process_market_data: a bid just below and an ask just above the
\* tick's price, with ids from rand::random().  Book prices made here are in
\* thousandths of the tick's unit.
BookProcessMarketData(b, tick, bid_id, ask_id) ==
    LET bid_order == [id |-> bid_id, price |-> tick.price * 999,
                      quantity |-> tick.volume \div 10, side |-> "Bid"]
        ask_order == [id |-> ask_id, price |-> tick.price * 1001,
                      quantity |-> tick.volume \div 10, side |-> "Ask"]
    IN AddOrder(AddOrder(b, bid_order), ask_order)

MaxOf(S) == CHOOSE x \in S : \A y \in S : y <= x
MinOf(S) == CHOOSE x \in S : \A y \in S : x <= y

\* Seeded fault: the best bid is taken from the wrong end of the map.
GetBestBidFirstKey(b) ==
    IF DOMAIN b.bids = {} THEN None ELSE Some(MinOf(DOMAIN b.bids))

\* bids.keys().next_back() / asks.keys().next()
GetBestBid(b) == IF DOMAIN b.bids = {} THEN None ELSE Some(MaxOf(DOMAIN b.bids))
GetBestAsk(b) == IF DOMAIN b.asks = {} THEN None ELSE Some(MinOf(DOMAIN b.asks))

GetOrder(b, order_id) ==
    IF order_id \in DOMAIN b.orders_by_id THEN Some(b.orders_by_id[order_id]) ELSE None

\* bids.get(&price).map(|orders| orders.clone()), and the same for asks
GetBidsAtPrice(b, price) == IF price \in DOMAIN b.bids THEN Some(b.bids[price]) ELSE None
GetAsksAtPrice(b, price) == IF price \in DOMAIN b.asks THEN Some(b.asks[price]) ELSE None

(***************************************************************************)
(* State.                                                                  *)
(*   config      exchange.max_retries and exchange.heartbeat_interval      *)
(*   pc          where main is: "connect" (the initial connect), "select"  *)
(*               (waiting in tokio::select!), "confirm" (process_market_-  *)
(*               data waits for the order response), "reconnect" (the      *)
(*               connect after a receive timeout), "subscribe" (about to   *)
(*               send SUBSCRIBE_MARKET_DATA), "done" (returned Ok),        *)
(*               "fatal" (returned Err)                                    *)
(*   exit        what main returned                                        *)
(*   attempts    connect's local counter of retries                        *)
(*   calls       TcpStream::connect calls made by the running connect      *)
(*   link        the socket of `exchange`: "none", "up", "closed" (the     *)
(*               peer closed: a read returns 0 bytes), "reset" (reads and  *)
(*               writes fail)                                              *)
(*   inbound     lines the venue wrote that the engine has not read        *)
(*   outbound    messages the engine wrote that the venue has not read     *)
(*   subscribed  SUBSCRIBE_MARKET_DATA was written on this connection      *)
(*   hbPending   signals in the heartbeat channel                          *)
(*   aggregator, strategy, risk   the components main owns                 *)
(*   flight      process_market_data's approved_order while it waits, with *)
(*               the number of the order                                   *)
(*   orderSeq    orders sent so far (an order's id is its number)          *)
(*   ticksSent   market-data lines the venue has sent                      *)
(*   now, waited, hbDue, silence   the clock of TimedSpec, in seconds: the *)
(*               time, the time spent in the current wait (a select or the *)
(*               wait for an order response), the time until the heartbeat *)
(*               interval fires, and the time select has waited without an *)
(*               inbound line since the last one, the last pipeline cycle  *)
(*               or the last (re)connect                                   *)
(*   order_book  the OrderBook main owns                                   *)
(*   call        the last call made on a component driven directly, with   *)
(*               what it returned                                          *)
(*   fed         the prices given, tick by tick, to a component driven     *)
(*               directly, since it was built                              *)
(*   volumes     the volumes of the same ticks                             *)
(*   signals     what a strategy driven directly returned, tick by tick    *)
(***************************************************************************)
VARIABLES config, pc, exit, attempts, calls, link, inbound, outbound,
          subscribed, hbPending, aggregator, strategy, risk,
          flight, orderSeq, ticksSent,
          now, waited, hbDue, silence,
          order_book, call, fed, volumes, signals

connVars == <<link, inbound, outbound, subscribed>>
tradeVars == <<aggregator, strategy, risk>>
timeVars == <<now, waited, hbDue, silence>>
coreVars == <<config, pc, exit, attempts, calls, link, inbound, outbound,
              subscribed, hbPending, aggregator, strategy, risk,
              flight, orderSeq, ticksSent>>
libVars == <<order_book, call, fed, volumes, signals>>
restVars == <<timeVars, libVars>>
vars == <<coreVars, timeVars, libVars>>

(***************************************************************************)
(* main up to the first connect, with the components it builds from the    *)
(* configuration.                                                          *)
(***************************************************************************)
Init ==
    /\ config \in Configs
    /\ pc = "connect"
    /\ exit = "running"
    /\ attempts = 0
    /\ calls = 0
    /\ link = "none"
    /\ inbound = <<>>
    /\ outbound = <<>>
    /\ subscribed = FALSE
    /\ hbPending = 0
    /\ aggregator = AggregatorNew(AggregationWindow, None)
    /\ strategy = TrendFollowingNew(LongPeriod, ShortPeriod)
    /\ risk = RiskManagerNew(MaxPositionSize, MaxLossPerTrade100, StopLossPct, InitialCapital)
    /\ flight = None
    /\ orderSeq = 0
    /\ ticksSent = 0
    /\ now = 0
    /\ waited = 0
    /\ hbDue = 0
    /\ silence = 0
    /\ order_book = OrderBookNew
    /\ call = [op |-> "none", arg |-> <<>>, ret |-> None]
    /\ fed = <<>>
    /\ volumes = <<>>
    /\ signals = <<>>

(***************************************************************************)
(* main returns: the connection, the channel and the components are        *)
(* dropped.  The model keeps their initial values from then on.            *)
(***************************************************************************)
Return(result) ==
    /\ pc' = (IF result = "Ok" THEN "done" ELSE "fatal")
    /\ exit' = result
    /\ link' = "none"
    /\ inbound' = <<>>
    /\ outbound' = <<>>
    /\ subscribed' = FALSE
    /\ hbPending' = 0
    /\ aggregator' = AggregatorNew(AggregationWindow, None)
    /\ strategy' = TrendFollowingNew(LongPeriod, ShortPeriod)
    /\ risk' = RiskManagerNew(MaxPositionSize, MaxLossPerTrade100, StopLossPct, InitialCapital)
    /\ flight' = None
    /\ UNCHANGED <<config, orderSeq, ticksSent>>

(***************************************************************************)
(* write_all on the socket: it succeeds on a live connection, fails on a   *)
(* reset one, and may do either once the peer has closed (what is written  *)
(* then reaches nobody).                                                   *)
(***************************************************************************)
SendOutcomes(l) ==
    IF l = "up" THEN {TRUE} ELSE IF l = "closed" THEN {TRUE, FALSE} ELSE {FALSE}

\* send_message(m): the message is written, or the write fails.
Write(m, ok) ==
    outbound' = (IF ok /\ link = "up" THEN Append(outbound, m) ELSE outbound)

\* A read returns at once: there are bytes, or the peer closed, or it fails.
ReadReady == inbound # <<>> \/ link \in {"closed", "reset"}

(***************************************************************************)
(* ExchangeConnection::new and connect                                     *)
(***************************************************************************)
\* Seeded fault: the strategy is built anew with every connection.
EstablishedRebuilding ==
    /\ attempts' = 0
    /\ calls' = 0
    /\ link' = "up"
    /\ inbound' = <<>>
    /\ outbound' = <<>>
    /\ subscribed' = FALSE
    /\ pc' = (IF pc = "connect" THEN "select" ELSE "subscribe")
    /\ strategy' = TrendFollowingNew(LongPeriod, ShortPeriod)
    /\ UNCHANGED <<exit, hbPending, aggregator, risk, flight>>

\* The connection is made and connect returns, its counters with it.  The
\* initial connection is used as it is; after a reconnect `exchange` is
\* replaced and SUBSCRIBE_MARKET_DATA follows.
Established ==
    /\ attempts' = 0
    /\ calls' = 0
    /\ link' = "up"
    /\ inbound' = <<>>
    /\ outbound' = <<>>
    /\ subscribed' = FALSE
    /\ pc' = (IF pc = "connect" THEN "select" ELSE "subscribe")
    /\ UNCHANGED <<exit, hbPending, tradeVars, flight>>

Refused == UNCHANGED <<pc, exit, connVars, hbPending, tradeVars, flight>>

\* The first TcpStream::connect of a connect call.
ConnectFirst ==
    /\ pc \in {"connect", "reconnect"}
    /\ calls = 0
    /\ \/ Established
       \/ Refused /\ calls' = 1 /\ attempts' = attempts
    /\ UNCHANGED <<config, orderSeq, ticksSent>>

\* One turn of connect's while loop: count, sleep 2 s, connect again.  The
\* initial connect runs inside a 5 s timeout, which the sleeps must fit in.
ConnectRetry ==
    /\ pc \in {"connect", "reconnect"}
    /\ calls >= 1
    /\ attempts < MAX_ATTEMPTS
    /\ pc = "connect" => RETRY_SLEEP_SECS * (attempts + 1) < CONNECT_TIMEOUT_SECS
    /\ \/ Established
       \/ Refused /\ attempts' = attempts + 1 /\ calls' = calls + 1
    /\ UNCHANGED <<config, orderSeq, ticksSent>>

\* Seeded fault: the reconnect error is dropped and the loop goes on with
\* the old connection.
ConnectGiveUpIgnored ==
    /\ pc \in {"connect", "reconnect"}
    /\ calls >= 1
    /\ ~(attempts < MAX_ATTEMPTS)
    /\ pc' = "select"
    /\ UNCHANGED <<config, exit, attempts, calls, connVars, hbPending, tradeVars,
                   flight, orderSeq, ticksSent>>

\* connect returns the last error; new and main pass it on.
ConnectGiveUp ==
    /\ pc \in {"connect", "reconnect"}
    /\ calls >= 1
    /\ ~(attempts < MAX_ATTEMPTS)
    /\ Return(IF pc = "connect" THEN "Exchange connection failed" ELSE "Reconnect failed")
    /\ UNCHANGED <<attempts, calls>>

\* The 5 s timeout around the initial connect fires, during an attempt or
\* a sleep; before the first attempt has returned, that attempt is the one
\* under way.
ConnectTimeout ==
    /\ pc = "connect"
    /\ Return("Exchange connection timeout")
    /\ calls' = Max2(calls, 1)
    /\ attempts' = attempts

\* exchange.send_message("SUBSCRIBE_MARKET_DATA").await? after a reconnect.
Subscribe ==
    /\ pc = "subscribe"
    /\ \E ok \in SendOutcomes(link) :
         IF ok
         THEN /\ Write(SubscribeMsg, TRUE)
              /\ subscribed' = TRUE
              /\ pc' = "select"
              /\ UNCHANGED <<config, exit, attempts, calls, link, inbound, hbPending,
                             tradeVars, flight, orderSeq, ticksSent>>
         ELSE Return("send failed") /\ UNCHANGED <<attempts, calls>>

(***************************************************************************)
(* The venue, on the current connection.  It is not part of the            *)
(* repository: it may send a market-data line at any time, reads what the  *)
(* engine wrote in order, answering a heartbeat with an acknowledgement    *)
(* and an order with EXECUTED or a rejection, and may close or reset the   *)
(* connection.  What it does while the engine reconnects is dropped with   *)
(* the old socket and is left out.                                         *)
(***************************************************************************)
VenueActive == link = "up" /\ pc \in {"select", "confirm", "subscribe"}

VenueTick ==
    /\ VenueActive
    /\ ticksSent < MaxTicks
    /\ \E p \in Prices : inbound' = Append(inbound, TickLine(p, TickVolume))
    /\ ticksSent' = ticksSent + 1
    /\ UNCHANGED <<config, pc, exit, attempts, calls, link, outbound, subscribed,
                   hbPending, tradeVars, flight, orderSeq>>

VenueSubscribed ==
    /\ VenueActive
    /\ outbound # <<>>
    /\ Head(outbound).type = "SUBSCRIBE_MARKET_DATA"
    /\ outbound' = Tail(outbound)
    /\ UNCHANGED <<config, pc, exit, attempts, calls, link, inbound, subscribed,
                   hbPending, tradeVars, flight, orderSeq, ticksSent>>

VenueAck ==
    /\ VenueActive
    /\ outbound # <<>>
    /\ Head(outbound).type = "HEARTBEAT"
    /\ outbound' = Tail(outbound)
    /\ inbound' = Append(inbound, AckLine)
    /\ UNCHANGED <<config, pc, exit, attempts, calls, link, subscribed,
                   hbPending, tradeVars, flight, orderSeq, ticksSent>>

VenueRespond ==
    /\ VenueActive
    /\ outbound # <<>>
    /\ Head(outbound).type = "PLACE_ORDER"
    /\ outbound' = Tail(outbound)
    /\ \/ inbound' = Append(inbound, ExecutedLine(Head(outbound).id))
       \/ inbound' = Append(inbound, RejectedLine(Head(outbound).id))
    /\ UNCHANGED <<config, pc, exit, attempts, calls, link, subscribed,
                   hbPending, tradeVars, flight, orderSeq, ticksSent>>

\* The peer closes: what it wrote can still be read, then reads return 0.
VenueClose ==
    /\ VenueActive
    /\ link' = "closed"
    /\ UNCHANGED <<config, pc, exit, attempts, calls, inbound, outbound, subscribed,
                   hbPending, tradeVars, flight, orderSeq, ticksSent>>

\* The connection breaks: reads and writes fail from now on.
VenueReset ==
    /\ VenueActive
    /\ link' = "reset"
    /\ inbound' = <<>>
    /\ UNCHANGED <<config, pc, exit, attempts, calls, outbound, subscribed,
                   hbPending, tradeVars, flight, orderSeq, ticksSent>>

(***************************************************************************)
(* The heartbeat task: interval.tick() then tx.send(()), which waits while *)
(* the channel is full.  It is spawned after the initial connect.          *)
(***************************************************************************)
HeartbeatTaskTick ==
    /\ pc \in {"select", "confirm", "reconnect", "subscribe"}
    /\ hbPending < HB_CHANNEL_CAPACITY
    /\ hbPending' = hbPending + 1
    /\ UNCHANGED <<config, pc, exit, attempts, calls, connVars, tradeVars,
                   flight, orderSeq, ticksSent>>

(***************************************************************************)
(* receive_message: one read of up to 1024 bytes, whatever lines (one or   *)
(* more, as the transport delivers them) are there.                        *)
(***************************************************************************)
Reads == {k \in 1..MaxChunk : k <= Len(inbound)}
Chunk(k) == SubSeq(inbound, 1, k)
Rest(k) == SubSeq(inbound, k + 1, Len(inbound))

\* Seeded fault: the strategy's candidate is sent without the risk gate.
PipelineUngated(data) ==
    LET parsed == Parse(data)
        tick == Unwrap(parsed)
        ev == TrendFollowingEvaluate(strategy, tick)
    IN IF IsHeartbeatAck(data) \/ ~IsSome(parsed)
       THEN [aggregator |-> aggregator, strategy |-> strategy, approved |-> None]
       ELSE [aggregator |-> AggregatorUpdate(aggregator, tick),
             strategy |-> ev.strategy,
             approved |-> ev.order]

\* Seeded fault: a line that does not parse is counted by the aggregator as
\* a tick of price 1 and no volume.
PipelineCountsBadLines(data) ==
    LET parsed == Parse(data)
        tick == Unwrap(parsed)
        ev == TrendFollowingEvaluate(strategy, tick)
    IN IF IsHeartbeatAck(data)
       THEN [aggregator |-> aggregator, strategy |-> strategy, approved |-> None]
       ELSE IF ~IsSome(parsed)
       THEN [aggregator |-> AggregatorUpdate(aggregator, [price |-> 1, volume |-> 0]),
             strategy |-> strategy, approved |-> None]
       ELSE [aggregator |-> AggregatorUpdate(aggregator, tick),
             strategy |-> ev.strategy,
             approved |-> IF IsSome(ev.order)
                          THEN EvaluateOrder(risk, Unwrap(ev.order), tick.price)
                          ELSE None]

\* Seeded fault: the strategy keeps what the tick did to it only when the
\* risk manager approves the order.
PipelineForgetsRejected(data) ==
    LET parsed == Parse(data)
        tick == Unwrap(parsed)
        ev == TrendFollowingEvaluate(strategy, tick)
        approved == IF IsSome(ev.order)
                    THEN EvaluateOrder(risk, Unwrap(ev.order), tick.price)
                    ELSE None
    IN IF IsHeartbeatAck(data) \/ ~IsSome(parsed)
       THEN [aggregator |-> aggregator, strategy |-> strategy, approved |-> None]
       ELSE [aggregator |-> AggregatorUpdate(aggregator, tick),
             strategy |-> IF IsSome(ev.order) /\ ~IsSome(approved)
                          THEN strategy ELSE ev.strategy,
             approved |-> approved]

(***************************************************************************)
(* process_market_data up to the send: what the tick does to the           *)
(* aggregator and the strategy, and the order the risk manager approves.   *)
(***************************************************************************)
Pipeline(data) ==
    LET parsed == Parse(data)
        tick == Unwrap(parsed)
        ev == TrendFollowingEvaluate(strategy, tick)
    IN IF IsHeartbeatAck(data) \/ ~IsSome(parsed)
       THEN [aggregator |-> aggregator, strategy |-> strategy, approved |-> None]
       ELSE [aggregator |-> AggregatorUpdate(aggregator, tick),
             strategy |-> ev.strategy,
             approved |-> IF IsSome(ev.order)
                          THEN EvaluateOrder(risk, Unwrap(ev.order), tick.price)
                          ELSE None]

\* The select arm for an inbound message, Ok(Ok(data)), with the whole of
\* process_market_data up to the wait for the order response.
ReceiveData ==
    /\ pc = "select"
    /\ \E k \in Reads :
         LET out == Pipeline(Chunk(k)) IN
         /\ inbound' = Rest(k)
         /\ aggregator' = out.aggregator
         /\ strategy' = out.strategy
         /\ IF IsSome(out.approved)
            THEN \E ok \in SendOutcomes(link) :
                   /\ Write(PlaceOrderMsg(Unwrap(out.approved), orderSeq + 1), ok)
                   /\ IF ok
                      THEN /\ orderSeq' = orderSeq + 1
                           /\ flight' = Some([order |-> Unwrap(out.approved),
                                              id |-> orderSeq + 1])
                           /\ pc' = "confirm"
                      ELSE UNCHANGED <<orderSeq, flight, pc>>
            ELSE UNCHANGED <<outbound, orderSeq, flight, pc>>
    /\ UNCHANGED <<config, exit, attempts, calls, link, subscribed, hbPending, risk,
                   ticksSent>>

\* The read returns at once with no line: Ok("") after the peer closed,
\* which fails to parse, or Ok(Err(e)); both are logged and the loop goes on.
ReceiveFailure ==
    /\ pc = "select"
    /\ inbound = <<>>
    /\ link \in {"closed", "reset"}
    /\ UNCHANGED coreVars

\* The select arm Err(_): nothing arrived for 10 s.
ReceiveTimeout ==
    /\ pc = "select"
    /\ ~ReadReady
    /\ pc' = "reconnect"
    /\ attempts' = 0
    /\ calls' = 0
    /\ UNCHANGED <<config, exit, connVars, hbPending, tradeVars, flight, orderSeq,
                   ticksSent>>

\* Seeded fault: the heartbeat signal is also served while the pipeline
\* waits for an order response.
HeartbeatPreempting ==
    /\ pc \in {"select", "confirm"}
    /\ hbPending > 0
    /\ hbPending' = hbPending - 1
    /\ \E ok \in SendOutcomes(link) : Write(HeartbeatMsg, ok)
    /\ UNCHANGED <<config, pc, exit, attempts, calls, link, inbound, subscribed,
                   tradeVars, flight, orderSeq, ticksSent>>

\* The select arm rx.recv(): one signal is taken and HEARTBEAT is written;
\* a failed write is logged.
Heartbeat ==
    /\ pc = "select"
    /\ hbPending > 0
    /\ hbPending' = hbPending - 1
    /\ \E ok \in SendOutcomes(link) : Write(HeartbeatMsg, ok)
    /\ UNCHANGED <<config, pc, exit, attempts, calls, link, inbound, subscribed,
                   tradeVars, flight, orderSeq, ticksSent>>

\* Seeded fault: ctrl-c is also observed while the pipeline waits for an
\* order response.
ShutdownMidPipeline ==
    /\ pc \in {"select", "confirm"}
    /\ Return("Ok")
    /\ UNCHANGED <<attempts, calls>>

\* The select arm signal::ctrl_c(): break, and main returns Ok(()).
Shutdown ==
    /\ pc = "select"
    /\ Return("Ok")
    /\ UNCHANGED <<attempts, calls>>

\* Seeded fault: the position is updated whatever the response says.
ConfirmResponseUnchecked ==
    /\ pc = "confirm"
    /\ \E k \in Reads :
         /\ inbound' = Rest(k)
         /\ risk' = UpdatePosition(risk, Unwrap(flight).order)
    /\ flight' = None
    /\ pc' = "select"
    /\ UNCHANGED <<config, exit, attempts, calls, link, outbound, subscribed,
                   hbPending, aggregator, strategy, orderSeq, ticksSent>>

(***************************************************************************)
(* process_market_data after the send: the wait for the order response.    *)
(***************************************************************************)
\* A read returns text: the position is updated iff it contains EXECUTED.
ConfirmResponse ==
    /\ pc = "confirm"
    /\ \E k \in Reads :
         /\ inbound' = Rest(k)
         /\ risk' = IF ContainsExecuted(Chunk(k))
                    THEN UpdatePosition(risk, Unwrap(flight).order)
                    ELSE risk
    /\ flight' = None
    /\ pc' = "select"
    /\ UNCHANGED <<config, exit, attempts, calls, link, outbound, subscribed,
                   hbPending, aggregator, strategy, orderSeq, ticksSent>>

\* Nothing arrived for 5 s: process_market_data returns the error.
ConfirmTimeout ==
    /\ pc = "confirm"
    /\ ~ReadReady
    /\ flight' = None
    /\ pc' = "select"
    /\ UNCHANGED <<config, exit, attempts, calls, connVars, hbPending, tradeVars,
                   orderSeq, ticksSent>>

\* The read returns "" (peer closed) or an error: no EXECUTED either way.
ConfirmFailure ==
    /\ pc = "confirm"
    /\ inbound = <<>>
    /\ link \in {"closed", "reset"}
    /\ flight' = None
    /\ pc' = "select"
    /\ UNCHANGED <<config, exit, attempts, calls, connVars, hbPending, tradeVars,
                   orderSeq, ticksSent>>

(***************************************************************************)
(* Spec: the engine with every wait free to end at any time it can (a      *)
(* timeout may fire whenever the read it guards has nothing to return).    *)
(* The clock stands still.  The heartbeat interval is long enough for at   *)
(* most MaxHbSignals heartbeats to be under way at a time.                 *)
(***************************************************************************)
CountType(s, t) == Cardinality({i \in 1..Len(s) : s[i].type = t})
HeartbeatsUnderWay ==
    hbPending + CountType(outbound, "HEARTBEAT") + CountType(inbound, "ack")

Next ==
    \/ ConnectFirst /\ UNCHANGED restVars
    \/ ConnectRetry /\ UNCHANGED restVars
    \/ ConnectGiveUp /\ UNCHANGED restVars
    \/ ConnectTimeout /\ UNCHANGED restVars
    \/ Subscribe /\ UNCHANGED restVars
    \/ ReceiveData /\ UNCHANGED restVars
    \/ ReceiveFailure /\ UNCHANGED restVars
    \/ ReceiveTimeout /\ UNCHANGED restVars
    \/ Heartbeat /\ UNCHANGED restVars
    \/ Shutdown /\ UNCHANGED restVars
    \/ ConfirmResponse /\ UNCHANGED restVars
    \/ ConfirmTimeout /\ UNCHANGED restVars
    \/ ConfirmFailure /\ UNCHANGED restVars
    \/ HeartbeatTaskTick /\ HeartbeatsUnderWay < MaxHbSignals /\ UNCHANGED restVars
    \/ VenueTick /\ UNCHANGED restVars
    \/ VenueSubscribed /\ UNCHANGED restVars
    \/ VenueAck /\ UNCHANGED restVars
    \/ VenueRespond /\ UNCHANGED restVars
    \/ VenueClose /\ UNCHANGED restVars
    \/ VenueReset /\ UNCHANGED restVars

Spec == Init /\ [][Next]_vars

(***************************************************************************)
(* TimedSpec: the same engine on a live connection, with a clock.  Time    *)
(* advances in steps of TimeStep, of which every duration of the program   *)
(* and of the configurations is a multiple.  It advances only while the    *)
(* loop waits with nothing to do: a read that can return, a pending        *)
(* heartbeat signal, a due interval and an expired timeout are served      *)
(* first.  Each pass through select! builds a new 10 s timeout, so every   *)
(* arm that completes restarts `waited`; connecting takes no time.         *)
(***************************************************************************)
TimeStep == RESPONSE_TIMEOUT_SECS

Tick ==
    /\ pc \in {"select", "confirm"}
    /\ now + TimeStep <= MaxTime
    /\ hbDue > 0
    /\ ~ReadReady
    /\ pc = "select" => hbPending = 0 /\ waited < RECV_TIMEOUT_SECS
    /\ pc = "confirm" => waited < RESPONSE_TIMEOUT_SECS
    /\ now' = now + TimeStep
    /\ waited' = waited + TimeStep
    /\ hbDue' = hbDue - TimeStep
    /\ silence' = (IF pc = "select" THEN silence + TimeStep ELSE silence)
    /\ UNCHANGED <<coreVars, libVars>>

\* A wait begins after an inbound line, a pipeline cycle or a (re)connect.
NewWait == waited' = 0 /\ silence' = 0 /\ UNCHANGED <<now, hbDue, libVars>>

\* A wait begins after a heartbeat was served: no inbound line came.
NextWait == waited' = 0 /\ UNCHANGED <<now, hbDue, silence, libVars>>

TimedNext ==
    \/ Tick
    \/ ConnectFirst /\ NewWait
    \/ ConnectRetry /\ NewWait
    \/ ConnectGiveUp /\ NewWait
    \/ ConnectTimeout /\ NewWait
    \/ Subscribe /\ NewWait
    \/ ReceiveData /\ NewWait
    \/ ReceiveTimeout /\ waited >= RECV_TIMEOUT_SECS /\ NewWait
    \/ Heartbeat /\ NextWait
    \/ Shutdown /\ NewWait
    \/ ConfirmResponse /\ NewWait
    \/ ConfirmTimeout /\ waited >= RESPONSE_TIMEOUT_SECS /\ NewWait
    \/ HeartbeatTaskTick /\ hbDue = 0 /\ hbDue' = config.heartbeat_interval
                         /\ UNCHANGED <<now, waited, silence, libVars>>
    \/ VenueTick /\ ticksSent < MaxTimedTicks /\ UNCHANGED restVars
    \/ VenueSubscribed /\ UNCHANGED restVars
    \/ VenueAck /\ UNCHANGED restVars
    \/ VenueRespond /\ UNCHANGED restVars

TimedSpec == Init /\ [][TimedNext]_vars

(***************************************************************************)
(* FairSpec: Spec with the scheduling the runtime gives.  A task that can  *)
(* make a step is polled, so every step of main and of the heartbeat task  *)
(* that stays possible is taken.  The 10 s receive timeout is left out: a  *)
(* new one is built on every pass through select!, so that it is possible  *)
(* does not make it fire.  Nothing is assumed of the venue or of ctrl-c.   *)
(***************************************************************************)
FairSpec ==
    /\ Spec
    /\ WF_vars(ConnectFirst /\ UNCHANGED restVars)
    /\ WF_vars(ConnectRetry /\ UNCHANGED restVars)
    /\ WF_vars(ConnectGiveUp /\ UNCHANGED restVars)
    /\ WF_vars(Subscribe /\ UNCHANGED restVars)
    /\ WF_vars(ReceiveData /\ UNCHANGED restVars)
    /\ WF_vars(ReceiveFailure /\ UNCHANGED restVars)
    /\ WF_vars(Heartbeat /\ UNCHANGED restVars)
    /\ WF_vars(ConfirmResponse /\ UNCHANGED restVars)
    /\ WF_vars(ConfirmTimeout /\ UNCHANGED restVars)
    /\ WF_vars(ConfirmFailure /\ UNCHANGED restVars)
    /\ WF_vars(HeartbeatTaskTick /\ HeartbeatsUnderWay < MaxHbSignals
                                  /\ UNCHANGED restVars)

(***************************************************************************)
(* BookSpec: the OrderBook driven directly, one call at a time, with       *)
(* orders, ids and quantities from small sets.  main stays where Init      *)
(* leaves it.  `call` keeps the last call, its arguments and its result.   *)
(***************************************************************************)
BookIds == 1..MaxBookId
BookPrices == 1..MaxBookPrice
BookOrders == [id : BookIds, price : BookPrices, quantity : {BOOK_QUANTITY},
               side : {"Bid", "Ask"}]

RECURSIVE SumLens(_, _)
SumLens(levels, keys) ==
    IF keys = {} THEN 0
    ELSE LET k == CHOOSE x \in keys : TRUE
         IN Len(levels[k]) + SumLens(levels, keys \ {k})

\* The number of entries in the price levels.
Resting(b) == SumLens(b.bids, DOMAIN b.bids) + SumLens(b.asks, DOMAIN b.asks)

BookIdle == UNCHANGED <<coreVars, timeVars, fed, volumes, signals>>

BookAdd ==
    /\ Resting(order_book) < MaxResting
    /\ \E order \in BookOrders :
         /\ order_book' = AddOrder(order_book, order)
         /\ call' = [op |-> "add_order", arg |-> <<order>>, ret |-> None]
    /\ BookIdle

BookRemove ==
    /\ \E order_id \in BookIds :
         /\ order_book' = RemoveOrder(order_book, order_id).book
         /\ call' = [op |-> "remove_order", arg |-> <<order_id>>,
                     ret |-> RemoveOrder(order_book, order_id).ret]
    /\ BookIdle

BookUpdate ==
    /\ \E order_id \in BookIds, new_quantity \in {BOOK_AMENDED} :
         /\ order_book' = UpdateOrder(order_book, order_id, new_quantity).book
         /\ call' = [op |-> "update_order", arg |-> <<order_id, new_quantity>>,
                     ret |-> UpdateOrder(order_book, order_id, new_quantity).ret]
    /\ BookIdle

\* The tick's price only names the two levels the orders go to, which no
\* price of BookPrices equals: one tick price is enough.
BookProcess ==
    /\ Resting(order_book) + 2 <= MaxResting
    /\ \E bid_id \in BookIds, ask_id \in BookIds :
         LET tick == [price |-> MaxBookPrice, volume |-> TickVolume] IN
         /\ order_book' = BookProcessMarketData(order_book, tick, bid_id, ask_id)
         /\ call' = [op |-> "process_market_data", arg |-> <<tick>>, ret |-> None]
    /\ BookIdle

BookGetBestBid ==
    /\ call' = [op |-> "get_best_bid", arg |-> <<>>, ret |-> GetBestBid(order_book)]
    /\ UNCHANGED order_book
    /\ BookIdle

BookGetBestAsk ==
    /\ call' = [op |-> "get_best_ask", arg |-> <<>>, ret |-> GetBestAsk(order_book)]
    /\ UNCHANGED order_book
    /\ BookIdle

BookGetOrder ==
    /\ \E order_id \in BookIds :
         call' = [op |-> "get_order", arg |-> <<order_id>>,
                  ret |-> GetOrder(order_book, order_id)]
    /\ UNCHANGED order_book
    /\ BookIdle

BookGetBidsAtPrice ==
    /\ \E price \in BookPrices :
         call' = [op |-> "get_bids_at_price", arg |-> <<price>>,
                  ret |-> GetBidsAtPrice(order_book, price)]
    /\ UNCHANGED order_book
    /\ BookIdle

BookGetAsksAtPrice ==
    /\ \E price \in BookPrices :
         call' = [op |-> "get_asks_at_price", arg |-> <<price>>,
                  ret |-> GetAsksAtPrice(order_book, price)]
    /\ UNCHANGED order_book
    /\ BookIdle

BookNext ==
    \/ BookAdd
    \/ BookRemove
    \/ BookUpdate
    \/ BookProcess
    \/ BookGetBestBid
    \/ BookGetBestAsk
    \/ BookGetOrder
    \/ BookGetBidsAtPrice
    \/ BookGetAsksAtPrice

\* The book reads nothing of the configuration: one of Configs stands for all.
BookInit == Init /\ config = CHOOSE c \in Configs : TRUE

BookSpec == BookInit /\ [][BookNext]_vars

(***************************************************************************)
(* The aggregator driven on its own: it is built with a window and with or *)
(* without weights, and fed ticks; fed records the prices given to update  *)
(* since the aggregator was built.  Prices and weights are those of the    *)
(* tests of aggregator.rs; the weights are in tenths (0.1, 0.3, 0.6), so a *)
(* weighted sum of the model is SumSeq(weights) times the one of the code. *)
(***************************************************************************)
TestPrices == <<10, 11, 12, 13>>
TestWeights == <<1, 3, 6>>
ShortWeights == <<1, 3>>
AggPrices == {TestPrices[i] : i \in DOMAIN TestPrices}
AggVolumes == {TickVolume, 2 * TickVolume}

AggIdle ==
    UNCHANGED <<config, pc, exit, attempts, calls, connVars, hbPending, strategy,
                risk, flight, orderSeq, ticksSent, timeVars, order_book, signals>>

\* MarketDataAggregator::new.  When it panics no aggregator is built: the one
\* at hand stays as it is.
AggNew ==
    /\ \E window_size \in {AggregationWindow, AGG_WINDOW},
          weights \in {None, Some(TestWeights), Some(ShortWeights)} :
         IF WeightsFit(window_size, weights)
         THEN /\ aggregator' = AggregatorNew(window_size, weights)
              /\ fed' = <<>>
              /\ volumes' = <<>>
              /\ call' = [op |-> "new", arg |-> <<window_size, weights>>,
                          ret |-> Some("built")]
         ELSE /\ call' = [op |-> "new", arg |-> <<window_size, weights>>,
                          ret |-> Some("panic")]
              /\ UNCHANGED <<aggregator, fed, volumes>>
    /\ AggIdle

AggUpdate ==
    /\ Len(fed) < MaxFed
    /\ \E price \in AggPrices, volume \in AggVolumes :
         /\ aggregator' = AggregatorUpdate(aggregator, [price |-> price, volume |-> volume])
         /\ fed' = Append(fed, price)
         /\ volumes' = Append(volumes, volume)
         /\ call' = [op |-> "update", arg |-> <<[price |-> price, volume |-> volume]>>,
                     ret |-> None]
    /\ AggIdle

AggNext ==
    \/ AggNew
    \/ AggUpdate

AggSpec == Init /\ [][AggNext]_vars

(***************************************************************************)
(* The aggregator built without weights for any window size, 0 included    *)
(* (market_data.aggregation_window is a usize), and fed ticks.             *)
(***************************************************************************)
AnyWindowSizes == {0, 1, AggregationWindow}

AnyWindowNew ==
    /\ \E window_size \in AnyWindowSizes :
         /\ aggregator' = AggregatorNew(window_size, None)
         /\ call' = [op |-> "new", arg |-> <<window_size, None>>, ret |-> Some("built")]
    /\ fed' = <<>>
    /\ volumes' = <<>>
    /\ AggIdle

AnyWindowNext ==
    \/ AnyWindowNew
    \/ AggUpdate

AnyWindowSpec == Init /\ [][AnyWindowNext]_vars

(***************************************************************************)
(* The risk manager driven on its own.  It is built with a position limit, *)
(* asked to evaluate candidate orders at a price, and told of a position   *)
(* change only for the order it approved last, as process_market_data does *)
(* (main.rs:232-246).  The limit of 50 and the quantities 5 and 20 let the *)
(* position reach 45 and a Buy of 20 meet it.                              *)
(***************************************************************************)
RiskLimits == {MaxPositionSize, 50}
RiskQuantities == {0, 5, 20}
RiskPrices == {1, 2}
RiskOrders == [symbol : {"AAPL"}, price : RiskPrices, quantity : RiskQuantities,
               side : {"Buy", "Sell"}]

RiskIdle ==
    UNCHANGED <<config, pc, exit, attempts, calls, connVars, hbPending, aggregator,
                strategy, flight, orderSeq, ticksSent, timeVars, order_book, fed,
                volumes, signals>>

RiskNew ==
    /\ \E max_position_size \in RiskLimits :
         /\ risk' = RiskManagerNew(max_position_size, MaxLossPerTrade100, StopLossPct,
                                   InitialCapital)
         /\ call' = [op |-> "new", arg |-> <<max_position_size>>, ret |-> None]
    /\ RiskIdle

\* evaluate_order(&mut order, tick.price): the candidate carries the tick's price.
RiskEvaluate ==
    /\ \E order \in RiskOrders :
         call' = [op |-> "evaluate_order", arg |-> <<order, order.price>>,
                  ret |-> EvaluateOrder(risk, order, order.price)]
    /\ UNCHANGED risk
    /\ RiskIdle

\* update_position(&approved_order)
RiskUpdatePosition ==
    /\ call.op = "evaluate_order"
    /\ IsSome(call.ret)
    /\ risk' = UpdatePosition(risk, Unwrap(call.ret))
    /\ call' = [op |-> "update_position", arg |-> <<Unwrap(call.ret)>>, ret |-> None]
    /\ RiskIdle

RiskNext ==
    \/ RiskNew
    \/ RiskEvaluate
    \/ RiskUpdatePosition

RiskSpec == Init /\ [][RiskNext]_vars

(***************************************************************************)
(* The risk manager given quantities of the whole u64 range: 5, and 5 plus *)
(* the modulus of the narrowing, which `as i32` turns into 5.  At price 0  *)
(* no quantity is stopped by the loss limit.  The sums of a position and a *)
(* narrowed quantity stay within the i32 for these quantities.             *)
(***************************************************************************)
WideQuantities == {5, 2 ^ NarrowBits + 5}
WidePrices == {0, 1}
WideOrders == [symbol : {"AAPL"}, price : WidePrices, quantity : WideQuantities,
               side : {"Buy", "Sell"}]

WideEvaluate ==
    /\ \E order \in WideOrders :
         call' = [op |-> "evaluate_order", arg |-> <<order, order.price>>,
                  ret |-> EvaluateOrder(risk, order, order.price)]
    /\ UNCHANGED risk
    /\ RiskIdle

WideRiskNext ==
    \/ RiskNew
    \/ WideEvaluate
    \/ RiskUpdatePosition

WideRiskSpec == Init /\ [][WideRiskNext]_vars

(***************************************************************************)
(* A strategy driven on its own, as a Box<dyn Strategy>: it is built and   *)
(* given ticks; fed records their prices and signals what evaluate         *)
(* returned for each.                                                      *)
(***************************************************************************)
StrategyIdle ==
    UNCHANGED <<config, pc, exit, attempts, calls, connVars, hbPending, aggregator,
                risk, flight, orderSeq, ticksSent, timeVars, order_book, call,
                volumes>>

\* The strategy at hand is a SimpleMovingAverageStrategy.
IsCrossover(s) == "window_size" \in DOMAIN s

CrossoverExample == [window_size |-> 3, prices |-> <<1, 2, 3, 10>>]
SmaPrices == Range(CrossoverExample.prices)

SmaNew ==
    /\ \E window_size \in {SmaWindow, SMA_WINDOW} :
         strategy' = SimpleMovingAverageNew(window_size)
    /\ fed' = <<>>
    /\ signals' = <<>>
    /\ StrategyIdle

SmaEvaluate ==
    /\ IsCrossover(strategy)
    /\ Len(fed) < MaxSmaTicks
    /\ \E price \in SmaPrices :
         LET r == SimpleMovingAverageEvaluate(strategy, [price |-> price, volume |-> TickVolume])
         IN /\ strategy' = r.strategy
            /\ signals' = Append(signals, r.order)
            /\ fed' = Append(fed, price)
    /\ StrategyIdle

SmaNext ==
    \/ SmaNew
    \/ SmaEvaluate

SmaSpec == Init /\ [][SmaNext]_vars

\* The periods a TrendFollowingStrategy is built with: those of the
\* configuration, and a longer long period, whose window fills later.
TrendPeriods == {<<LongPeriod, ShortPeriod>>, <<LongPeriod + 1, ShortPeriod>>}

TrendNew ==
    /\ \E periods \in TrendPeriods :
         strategy' = TrendFollowingNew(periods[1], periods[2])
    /\ fed' = <<>>
    /\ signals' = <<>>
    /\ StrategyIdle

TrendEvaluate ==
    /\ ~IsCrossover(strategy)
    /\ Len(fed) < MaxTrendTicks
    /\ \E price \in Prices :
         LET r == TrendFollowingEvaluate(strategy, [price |-> price, volume |-> TickVolume])
         IN /\ strategy' = r.strategy
            /\ signals' = Append(signals, r.order)
            /\ fed' = Append(fed, price)
    /\ StrategyIdle

TrendNext ==
    \/ TrendNew
    \/ TrendEvaluate

TrendSpec == Init /\ [][TrendNext]_vars

(***************************************************************************)
(* The binary codec driven on its own: a message is serialized, and the    *)
(* buffer, or a beginning of it, is deserialized.                          *)
(***************************************************************************)
Bytes == {0, 1, 255}

RECURSIVE SeqsUpTo(_, _)
SeqsUpTo(S, n) ==
    IF n = 0 THEN {<<>>}
    ELSE SeqsUpTo(S, n - 1) \cup {Append(q, x) : q \in SeqsUpTo(S, n - 1), x \in S}

CodecIdle == UNCHANGED <<coreVars, timeVars, order_book, fed, volumes, signals>>

CodecSerialize ==
    /\ \E message_type \in Bytes, data \in SeqsUpTo(Bytes, MaxPayload) :
         LET m == BinaryMessageNew(message_type, data)
         IN call' = [op |-> "serialize", arg |-> <<m>>, ret |-> BinarySerialize(m)]
    /\ CodecIdle

CodecDeserialize ==
    /\ call.op = "serialize"
    /\ \E n \in 0..Len(Unwrap(call.ret.value)) :
         LET buffer == SubSeq(Unwrap(call.ret.value), 1, n)
         IN call' = [op |-> "deserialize", arg |-> <<buffer>>,
                     ret |-> BinaryDeserialize(buffer)]
    /\ CodecIdle

CodecNext ==
    \/ CodecSerialize
    \/ CodecDeserialize

CodecSpec == Init /\ [][CodecNext]_vars

(***************************************************************************)
(* The text channel driven on its own against a peer that echoes: the     *)
(* socket's two directions, outbound and inbound, carry bytes here.        *)
(***************************************************************************)
Newline == "\n"
Chars == {"a", "b"}

\* send_message: format!("{}\n", message), written whole.
SendMessage(message) == Append(message, Newline)

\* The numbers of bytes one read into the 1024-byte buffer may return.
ReadSizes(stream) == 1..Min2(Len(stream), READ_BUFFER)

\* receive_message: the bytes of one read, as they are.
ReceiveMessage(stream, n) == SubSeq(stream, 1, n)

ChannelIdle ==
    UNCHANGED <<config, pc, exit, attempts, calls, link, subscribed, hbPending,
                tradeVars, flight, orderSeq, ticksSent, timeVars, order_book,
                fed, volumes, signals>>

ChannelSend ==
    /\ \E message \in SeqsUpTo(Chars, MaxMessage) :
         /\ Len(outbound) + Len(inbound) + Len(message) + 1 <= MaxInFlight
         /\ outbound' = outbound \o SendMessage(message)
         /\ call' = [op |-> "send_message", arg |-> <<message>>, ret |-> None]
    /\ UNCHANGED inbound
    /\ ChannelIdle

\* The peer reads what has arrived, all of it or a beginning, and writes the
\* same bytes back.
PeerEcho ==
    /\ outbound # <<>>
    /\ \E n \in ReadSizes(outbound) :
         /\ inbound' = inbound \o SubSeq(outbound, 1, n)
         /\ outbound' = SubSeq(outbound, n + 1, Len(outbound))
    /\ UNCHANGED call
    /\ ChannelIdle

ChannelReceive ==
    /\ inbound # <<>>
    /\ \E n \in ReadSizes(inbound) :
         /\ call' = [op |-> "receive_message", arg |-> <<>>,
                     ret |-> Some(ReceiveMessage(inbound, n))]
         /\ inbound' = SubSeq(inbound, n + 1, Len(inbound))
    /\ UNCHANGED outbound
    /\ ChannelIdle

ChannelNext ==
    \/ ChannelSend
    \/ PeerEcho
    \/ ChannelReceive

ChannelSpec == Init /\ [][ChannelNext]_vars

(***************************************************************************)
(*                             Properties                                  *)
(***************************************************************************)
Running == pc \notin {"done", "fatal"}
Last(s) == s[Len(s)]

\* The step writes one message of type t on the connection.
Written(t) ==
    /\ Len(outbound') = Len(outbound) + 1
    /\ Last(outbound').type = t

\* The lines a step of the engine took from the socket.
Consumed == SubSeq(inbound, 1, Len(inbound) - Len(inbound'))

(***************************************************************************)
(* C1.  While main runs, the risk manager changes in one way only: the     *)
(* wait for an order response reads text that contains EXECUTED, and the   *)
(* position moves by the order that was sent.  In every other step (a send *)
(* that fails, a read that fails, the 5 s timeout, a response without the  *)
(* marker) position and capital stay as they were; the capital never       *)
(* changes at all.                                                         *)
(***************************************************************************)
C1_PositionOnlyOnExecuted ==
    [][pc' \notin {"done", "fatal"} =>
         /\ risk'.current_capital = risk.current_capital
         /\ risk' # risk =>
              /\ pc = "confirm"
              /\ IsSome(flight)
              /\ \E k \in Reads :
                   /\ inbound' = Rest(k)
                   /\ \E i \in 1..k : inbound[i].type = "executed"
              /\ risk' = UpdatePosition(risk, Unwrap(flight).order)]_vars

\* Two orders were sent, one was confirmed with EXECUTED and one was not.
C1_Witness ==
    /\ pc = "select"
    /\ orderSeq = 2
    /\ Abs(risk.current_position) = TF_QUANTITY

(***************************************************************************)
(* C2.  A PLACE_ORDER is written only by the cycle of a market-data line,  *)
(* and it carries the order evaluate_order approved for the candidate the  *)
(* strategy produced on that line, at that line's price.  Nothing is sent  *)
(* when either returns None, one message at most is written per step, and  *)
(* the orders sent never outnumber the lines taken from the socket.        *)
(***************************************************************************)
C2_OrderIsApprovedCandidate ==
    /\ [](orderSeq + CountType(inbound, "tick") <= ticksSent)
    /\ [][/\ Len(outbound') <= Len(outbound) + 1
          /\ Written("PLACE_ORDER") =>
               /\ pc = "select"
               /\ Len(Consumed) = 1
               /\ Consumed[1].type = "tick"
               /\ LET tick == [price |-> Consumed[1].price,
                               volume |-> Consumed[1].volume]
                      candidate == TrendFollowingEvaluate(strategy, tick).order
                  IN /\ IsSome(candidate)
                     /\ LET approved == EvaluateOrder(risk, Unwrap(candidate),
                                                      tick.price)
                        IN /\ IsSome(approved)
                           /\ Last(outbound').order = approved]_vars

\* Lines at 1, 3, 2: the buy signal at 3 was refused by the risk manager and
\* the sell signal at 2 is the first order sent.
C2_Witness ==
    /\ pc = "confirm"
    /\ Unwrap(flight).id = 1
    /\ Unwrap(flight).order.side = "Sell"
    /\ aggregator.price_window = <<3, 2>>
    /\ aggregator.low_price = Some(1)

(***************************************************************************)
(* C3.  The loop never waits in select for more than 10 s without an       *)
(* inbound line: when 10 s have passed it reconnects, whatever the         *)
(* heartbeat interval.                                                     *)
(***************************************************************************)
C3_ReconnectOnStall == silence <= RECV_TIMEOUT_SECS

(***************************************************************************)
(* C4.  Once the connection has failed (the peer closed it or it broke)    *)
(* while the loop runs, the loop comes to reconnect and subscribe again,   *)
(* unless main returns first.                                              *)
(***************************************************************************)
C4_ReconnectAfterFailure ==
    (pc = "select" /\ link \in {"closed", "reset"})
        ~> (pc \in {"reconnect", "subscribe"} \/ ~Running)

(***************************************************************************)
(* C5.  When connecting ends in failure, exactly max_retries attempts, as  *)
(* configured, have been made.                                             *)
(***************************************************************************)
C5_ConfiguredAttempts ==
    exit \in {"Exchange connection failed", "Exchange connection timeout",
              "Reconnect failed"}
        => calls = config.max_retries

\* connect has made its first attempt and all of its retries, in vain.
Exhausted ==
    /\ pc \in {"connect", "reconnect"}
    /\ calls >= 1
    /\ attempts >= MAX_ATTEMPTS

(***************************************************************************)
(* C6.  A connect call makes a bounded number of attempts.  Once they are  *)
(* used up no further attempt is made and the only way on is main          *)
(* returning the error; after main has returned with an error nothing      *)
(* happens any more: no loop iteration, no connection attempt.             *)
(***************************************************************************)
C6_ConnectFailureIsFatal ==
    /\ [](calls <= MAX_ATTEMPTS + 1)
    /\ [][Exhausted =>
            /\ calls' = calls
            /\ attempts' = attempts
            /\ pc' \in {pc, "fatal"}]_vars
    /\ [][pc = "fatal" => UNCHANGED vars]_vars

\* A reconnect used up its attempts and main returned the error.
C6_Witness ==
    /\ pc = "fatal"
    /\ exit = "Reconnect failed"
    /\ calls = MAX_ATTEMPTS + 1

(***************************************************************************)
(* C7.  SUBSCRIBE_MARKET_DATA has been sent on a connection before any     *)
(* HEARTBEAT or PLACE_ORDER is written on it, the initial connection       *)
(* included.                                                               *)
(***************************************************************************)
C7_SubscribeBeforeTraffic ==
    [][Written("HEARTBEAT") \/ Written("PLACE_ORDER") => subscribed]_vars

(***************************************************************************)
(* C8.  What the wait for an order response takes from the socket is never *)
(* a market-data line or a heartbeat acknowledgement.                      *)
(***************************************************************************)
C8_ConfirmationReadsOnlyResponses ==
    [][pc = "confirm" /\ pc' = "select" =>
         \A i \in 1..Len(Consumed) : Consumed[i].type \notin {"tick", "ack"}]_vars

(***************************************************************************)
(* C9.  The position is updated for an order only on an EXECUTED the venue *)
(* produced for that very order: the response to an earlier order whose    *)
(* wait timed out is never credited to a later one.                        *)
(***************************************************************************)
C9_ExecutedIsForTheOrder ==
    [][pc = "confirm" /\ Running' /\ risk' # risk =>
         \E i \in 1..Len(Consumed) :
            /\ Consumed[i].type = "executed"
            /\ Consumed[i].for = Unwrap(flight).id]_vars

(***************************************************************************)
(* C10.  Heartbeats do not preempt the pipeline.  HEARTBEAT is written     *)
(* only by the loop in select, one signal per message, in a step that      *)
(* takes nothing from the socket and leaves the trading state alone; while *)
(* an order awaits its response nothing follows it on the wire; and a      *)
(* signal leaves the channel only by being served (or when main returns),  *)
(* so one that arrives during a cycle is still there afterwards.           *)
(***************************************************************************)
C10_NoHeartbeatPreemption ==
    /\ [](pc = "confirm" =>
            \A i \in 1..Len(outbound) :
               outbound[i].type = "PLACE_ORDER" /\ outbound[i].id = Unwrap(flight).id
                  => i = Len(outbound))
    /\ [][Written("HEARTBEAT") => pc = "select" /\ hbPending' = hbPending - 1]_vars
    /\ [][hbPending' < hbPending /\ Running' =>
            /\ pc = "select" /\ pc' = "select"
            /\ hbPending' = hbPending - 1
            /\ Written("HEARTBEAT") \/ (link # "up" /\ outbound' = outbound)
            /\ UNCHANGED <<inbound, tradeVars, flight, orderSeq>>]_vars

\* A heartbeat signal is held in the channel while an order awaits its
\* response.
C10_Witness ==
    /\ pc = "confirm"
    /\ hbPending > 0
    /\ outbound # <<>>
    /\ Last(outbound).type = "PLACE_ORDER"

\* The loop in select takes lines from the socket and goes on.
Serviced ==
    /\ pc = "select"
    /\ Running'
    /\ link' = link
    /\ Len(inbound') < Len(inbound)

(***************************************************************************)
(* C11.  Shutdown is observed only between cycles: main returns Ok only    *)
(* from the select point, and from the wait for an order response the only *)
(* way on is back to select: the cycle of an inbound line is never cut     *)
(* short by the shutdown signal.                                           *)
(***************************************************************************)
C11_ShutdownBetweenCycles ==
    /\ [](pc = "done" <=> exit = "Ok")
    /\ [][pc' = "done" => pc = "select"]_vars
    /\ [][pc = "confirm" => pc' \in {"confirm", "select"}]_vars

\* main returned Ok after a run in which an order was sent.
C11_Witness ==
    /\ pc = "done"
    /\ exit = "Ok"
    /\ orderSeq > 0

(***************************************************************************)
(* C12.  A market-data line that fails to parse is not fatal: the step     *)
(* that reads it writes nothing, leaves aggregator, strategy, risk manager *)
(* and order book as they were, takes the text off the socket for good and *)
(* leaves the loop in select.                                              *)
(***************************************************************************)
C12_ParseFailureIsNotFatal ==
    [][Serviced /\ ~IsHeartbeatAck(Consumed) /\ ~IsSome(Parse(Consumed)) =>
         /\ pc' = "select"
         /\ exit' = "running"
         /\ inbound' = SubSeq(inbound, Len(Consumed) + 1, Len(inbound))
         /\ UNCHANGED <<outbound, aggregator, strategy, risk, order_book,
                        flight, orderSeq>>]_vars

\* Two market-data lines were read together, which does not parse: both are
\* gone and the aggregator has seen neither.
C12_Witness ==
    /\ pc = "select"
    /\ link = "up"
    /\ ~subscribed
    /\ ticksSent = 2
    /\ inbound = <<>>
    /\ aggregator.total_volume = 0

(***************************************************************************)
(* C13.  For every tick that parses, the cycle mutates the order book for  *)
(* that tick (as well as updating the aggregator) before the strategy is   *)
(* evaluated on it.                                                        *)
(***************************************************************************)
C13_TickReachesOrderBook ==
    [][Serviced /\ IsSome(Parse(Consumed)) =>
         /\ aggregator' = AggregatorUpdate(aggregator, Unwrap(Parse(Consumed)))
         /\ order_book' # order_book]_vars

\* The entries of the price levels of one side: where each rests and what.
LevelEntries(levels, side) ==
    UNION {{[side |-> side, price |-> p, pos |-> i, order |-> levels[p][i]] :
              i \in 1..Len(levels[p])} : p \in DOMAIN levels}

\* Every entry resting in the book.
RestingEntries(b) == LevelEntries(b.bids, "Bid") \cup LevelEntries(b.asks, "Ask")

\* The prices of the orders of one side that rest in the book.
RestingPrices(b, side) ==
    {e.order.price : e \in {x \in RestingEntries(b) : x.order.side = side}}

(***************************************************************************)
(* C14.  Lockstep: the ids of the identifier index are the ids that rest   *)
(* in the price levels, and each of them rests exactly once, on the side   *)
(* and at the price the index records.                                     *)
(***************************************************************************)
C14_IndexAndLevelsInLockstep ==
    LET entries == RestingEntries(order_book)
        index == order_book.orders_by_id
    IN /\ {e.order.id : e \in entries} = DOMAIN index
       /\ \A e1 \in entries, e2 \in entries : e1.order.id = e2.order.id => e1 = e2
       /\ \A e \in entries :
            /\ e.side = index[e.order.id].side
            /\ e.price = index[e.order.id].price

(***************************************************************************)
(* C15.  After update_order(id, q) has succeeded, get_order(id) has        *)
(* quantity q and so has the entry for id in its price level.              *)
(***************************************************************************)
C15_AmendReachesIndexAndLevel ==
    call.op = "update_order" /\ IsSome(call.ret) =>
        /\ IsSome(GetOrder(order_book, call.arg[1]))
        /\ Unwrap(GetOrder(order_book, call.arg[1])).quantity = call.arg[2]
        /\ \E e \in RestingEntries(order_book) :
             e.order.id = call.arg[1] /\ e.order.quantity = call.arg[2]

(***************************************************************************)
(* C16.  get_best_bid returns the highest price among the resting Bid      *)
(* orders and get_best_ask the lowest among the resting Ask orders; each   *)
(* returns None exactly when its side has no resting order.                *)
(***************************************************************************)
C16_BestPrices ==
    /\ call.op = "get_best_bid" =>
         call.ret = IF RestingPrices(order_book, "Bid") = {} THEN None
                    ELSE Some(MaxOf(RestingPrices(order_book, "Bid")))
    /\ call.op = "get_best_ask" =>
         call.ret = IF RestingPrices(order_book, "Ask") = {} THEN None
                    ELSE Some(MinOf(RestingPrices(order_book, "Ask")))

\* The best bid is asked for while bids rest at two prices.
C16_Witness ==
    /\ call.op = "get_best_bid"
    /\ Cardinality(RestingPrices(order_book, "Bid")) = 2

(***************************************************************************)
(* C17.  The book never holds an empty price level: every key of bids and  *)
(* of asks maps to a sequence that is not empty, also right after the last *)
(* order at a price was removed.                                           *)
(***************************************************************************)
C17_NoEmptyLevel ==
    /\ \A p \in DOMAIN order_book.bids : order_book.bids[p] # <<>>
    /\ \A p \in DOMAIN order_book.asks : order_book.asks[p] # <<>>

\* remove_order took the only order of a level, and the level is gone,
\* while another order still rests.
C17_Witness ==
    /\ call.op = "remove_order"
    /\ IsSome(call.ret)
    /\ Unwrap(call.ret).price \notin
         DOMAIN (IF Unwrap(call.ret).side = "Bid" THEN order_book.bids
                 ELSE order_book.asks)
    /\ Resting(order_book) > 0

(***************************************************************************)
(* C18.  remove_order with an id that is not in the index returns None and *)
(* leaves bids, asks and the index unchanged; with a known id it returns   *)
(* the order of the index, and get_order(id) is None afterwards.           *)
(***************************************************************************)
C18_RemoveUnknownAndKnown ==
    [][call'.op = "remove_order" =>
         LET order_id == call'.arg[1] IN
         IF order_id \in DOMAIN order_book.orders_by_id
         THEN /\ call'.ret = Some(order_book.orders_by_id[order_id])
              /\ GetOrder(order_book', order_id) = None
         ELSE /\ call'.ret = None
              /\ order_book' = order_book]_vars

\* An unknown id was removed from a book in which orders rest.
C18_Witness ==
    /\ call.op = "remove_order"
    /\ call.ret = None
    /\ Resting(order_book) > 0

\* The last n elements of s.
LastN(s, n) == SubSeq(s, Len(s) - n + 1, Len(s))

\* s is the beginning of t.
IsPrefix(s, t) == Len(s) <= Len(t) /\ s = SubSeq(t, 1, Len(s))

\* The averages the tests of aggregator.rs expect after each of TestPrices,
\* in tenths: unweighted, and with TestWeights.
SmaExpected == <<100, 105, 110, 120>>
WmaExpected == <<100, 107, 115, 125>>

(***************************************************************************)
(* C19.  Without weights, after the n-th update the window holds the last  *)
(* min(n, window_size) prices in arrival order and the average is their    *)
(* arithmetic mean; with window 3 the prices 10, 11, 12, 13 give 10.0,     *)
(* 10.5, 11.0, 12.0.                                                       *)
(***************************************************************************)
C19_UnweightedWindowAndMean ==
    ~IsSome(aggregator.weights) =>
        LET k == Min2(Len(fed), aggregator.window_size)
            last == LastN(fed, k)
        IN /\ aggregator.price_window = last
           /\ fed = <<>> => aggregator.sma = None
           /\ fed # <<>> =>
                /\ IsSome(aggregator.sma)
                /\ Unwrap(aggregator.sma).sum * k = SumSeq(last) * Unwrap(aggregator.sma).n
           /\ fed # <<>> /\ aggregator.window_size = AGG_WINDOW /\ IsPrefix(fed, TestPrices) =>
                Unwrap(aggregator.sma).sum * 10 = SmaExpected[Len(fed)] * Unwrap(aggregator.sma).n

\* All the test prices were fed to an unweighted window of 3, which dropped
\* the oldest.
C19_Witness ==
    /\ ~IsSome(aggregator.weights)
    /\ aggregator.window_size = AGG_WINDOW
    /\ fed = TestPrices
    /\ aggregator.price_window = Tail(TestPrices)

(***************************************************************************)
(* C20.  With weights 0.1, 0.3, 0.6 and window 3, the averages after the   *)
(* prices 10, 11, 12, 13 are 10.0, 10.7, 11.5, 12.5, also while the window *)
(* is only partly filled; after the first tick the average is that tick's  *)
(* price.                                                                  *)
(***************************************************************************)
C20_WeightedMean ==
    IsSome(aggregator.weights) /\ fed # <<>> =>
        LET sma == Unwrap(aggregator.sma)
            scale == SumSeq(Unwrap(aggregator.weights))
        IN /\ Len(fed) = 1 => sma.sum = fed[1] * scale * sma.n
           /\ IsPrefix(fed, TestPrices) =>
                sma.sum * 10 = WmaExpected[Len(fed)] * scale * sma.n

(***************************************************************************)
(* C21.  After every update the total volume is the sum of the volumes of  *)
(* all the ticks seen, the high is the maximum and the low the minimum of  *)
(* all the prices seen, whatever the window still holds; so the high never *)
(* decreases and the low never increases from one update to the next.      *)
(***************************************************************************)
C21_RunningAccumulators ==
    /\ [](/\ aggregator.total_volume = SumSeq(volumes)
          /\ fed = <<>> => aggregator.high_price = None /\ aggregator.low_price = None
          /\ fed # <<>> =>
               /\ aggregator.high_price = Some(MaxOf(Range(fed)))
               /\ aggregator.low_price = Some(MinOf(Range(fed))))
    /\ [][IsSome(aggregator.high_price) /\ Len(fed') = Len(fed) + 1 =>
            /\ Unwrap(aggregator'.high_price) >= Unwrap(aggregator.high_price)
            /\ Unwrap(aggregator'.low_price) <= Unwrap(aggregator.low_price)]_vars

\* More ticks than the window holds were seen, the high is that of a price
\* no longer in the window, and the volumes were not all the same.
C21_Witness ==
    /\ Len(fed) > aggregator.window_size
    /\ Unwrap(aggregator.high_price) \notin Range(aggregator.price_window)
    /\ Cardinality(Range(volumes)) > 1

(***************************************************************************)
(* C22.  No aggregator exists whose weights differ in number from its      *)
(* window size, so update never reads past the weights: building one with  *)
(* such weights fails, and the failed call builds nothing.                 *)
(***************************************************************************)
C22_WeightsFitTheWindow ==
    /\ [](IsSome(aggregator.weights) =>
            /\ Len(Unwrap(aggregator.weights)) = aggregator.window_size
            /\ Len(aggregator.price_window) <= Len(Unwrap(aggregator.weights)))
    /\ [][/\ call' # call
          /\ call'.op = "new"
          /\ IsSome(call'.arg[2])
          /\ Len(Unwrap(call'.arg[2])) # call'.arg[1]
          => call'.ret = Some("panic") /\ aggregator' = aggregator]_vars

\* new was called with two weights for a window of three, and panicked.
C22_Witness ==
    /\ call.op = "new"
    /\ call.arg = <<AGG_WINDOW, Some(ShortWeights)>>
    /\ call.ret = Some("panic")

\* The position after the candidate of the last evaluate_order, were it
\* executed in full.
Hypothetical ==
    IF call.arg[1].side = "Buy"
    THEN risk.current_position + call.arg[1].quantity
    ELSE risk.current_position - call.arg[1].quantity

\* What the position limit leaves of the candidate of the last evaluate_order.
Clamped ==
    IF Abs(Hypothetical) <= risk.max_position_size THEN call.arg[1].quantity
    ELSE IF call.arg[1].side = "Buy"
         THEN Max2(risk.max_position_size - risk.current_position, 0)
         ELSE Max2(risk.max_position_size + risk.current_position, 0)

\* The loss of the clamped candidate is within max_loss_per_trade (both sides
\* in hundredths).
LossWithinLimit ==
    call.arg[2] * Clamped * risk.stop_loss_percentage <= risk.max_loss_per_trade

(***************************************************************************)
(* C23.  When the hypothetical position is beyond max_position_size the    *)
(* quantity is reduced to max - position for a Buy and max + position for  *)
(* a Sell, floored at 0, which is the most that keeps the position within  *)
(* the limit; otherwise it stays as requested.  An approved order carries  *)
(* that quantity, and a positive one whose loss is within the limit is     *)
(* approved.                                                               *)
(***************************************************************************)
C23_PositionClamp ==
    call.op = "evaluate_order" =>
        /\ Clamped <= call.arg[1].quantity
        /\ Abs(Hypothetical) > risk.max_position_size =>
             /\ Clamped < call.arg[1].quantity
             /\ \A q \in 0..call.arg[1].quantity :
                  (Abs(risk.current_position
                       + (IF call.arg[1].side = "Buy" THEN q ELSE -q))
                     <= risk.max_position_size) => q <= Clamped
        /\ IsSome(call.ret) => Unwrap(call.ret).quantity = Clamped
        /\ Clamped > 0 /\ LossWithinLimit => IsSome(call.ret)

\* Limit 50, position 45: a Buy of 20 is approved with quantity 5.
C23_Witness ==
    /\ call.op = "evaluate_order"
    /\ risk.max_position_size = 50
    /\ risk.current_position = 45
    /\ call.arg[1].side = "Buy"
    /\ call.arg[1].quantity = 20
    /\ IsSome(call.ret)
    /\ Unwrap(call.ret).quantity = 5

(***************************************************************************)
(* C24.  evaluate_order returns None whenever price * clamped quantity *   *)
(* stop_loss_percentage exceeds max_loss_per_trade, even if the clamped    *)
(* quantity is positive; with a positive clamped quantity and a loss       *)
(* within the limit the order is approved.                                 *)
(***************************************************************************)
C24_LossLimit ==
    call.op = "evaluate_order" =>
        /\ ~LossWithinLimit => call.ret = None
        /\ Clamped > 0 /\ LossWithinLimit =>
             call.ret = Some([call.arg[1] EXCEPT !.quantity = Clamped])

\* A candidate clamped to a positive quantity smaller than asked for is
\* rejected for its loss.
C24_Witness ==
    /\ call.op = "evaluate_order"
    /\ Clamped > 0
    /\ Clamped < call.arg[1].quantity
    /\ ~LossWithinLimit
    /\ call.ret = None

(***************************************************************************)
(* C25.  evaluate_order never returns an order of quantity 0: a candidate  *)
(* of quantity 0, or clamped to 0 by the position limit, is rejected.      *)
(***************************************************************************)
C25_NoZeroQuantityOrder ==
    call.op = "evaluate_order" =>
        /\ IsSome(call.ret) => Unwrap(call.ret).quantity > 0
        /\ call.arg[1].quantity = 0 \/ Clamped = 0 => call.ret = None

\* A candidate of positive quantity met a position at the limit and was
\* clamped to 0.
C25_Witness ==
    /\ call.op = "evaluate_order"
    /\ call.arg[1].quantity > 0
    /\ Clamped = 0
    /\ call.ret = None

\* The first i elements of s.
FirstN(s, i) == SubSeq(s, 1, i)

(***************************************************************************)
(* C26.  With a window of 3 and the prices 1, 2, 3 the crossover strategy  *)
(* emits no order on any of the first three ticks, and on the fourth       *)
(* price, 10, it emits a Buy.                                              *)
(***************************************************************************)
C26_CrossoverWarmUp ==
    /\ IsCrossover(strategy)
    /\ strategy.window_size = CrossoverExample.window_size
    /\ fed # <<>>
    /\ IsPrefix(fed, CrossoverExample.prices)
    => IF Len(fed) < Len(CrossoverExample.prices)
       THEN signals[Len(fed)] = None
       ELSE /\ IsSome(signals[Len(fed)])
            /\ Unwrap(signals[Len(fed)]).side = "Buy"

(***************************************************************************)
(* C27.  The crossover strategy's window never exceeds window_size and     *)
(* holds the most recent prices, the current one included.  On a tick that *)
(* leaves fewer than window_size prices in it evaluate returns None; on a  *)
(* full window it returns a Buy of quantity 1 at the tick's price if the   *)
(* price is above the window's mean, a Sell of quantity 1 if below, and    *)
(* None if equal.                                                          *)
(***************************************************************************)
C27_CrossoverRule ==
    IsCrossover(strategy) =>
        /\ Len(strategy.prices) <= strategy.window_size
        /\ strategy.prices = LastN(fed, Min2(Len(fed), strategy.window_size))
        /\ Len(signals) = Len(fed)
        /\ \A i \in DOMAIN fed :
             LET window == LastN(FirstN(fed, i), Min2(i, strategy.window_size))
                 order(side) == Some([symbol |-> "SYMBOL", price |-> fed[i],
                                      quantity |-> 1, side |-> side])
             IN signals[i] =
                  IF i < strategy.window_size THEN None
                  ELSE IF fed[i] * Len(window) > SumSeq(window) THEN order("Buy")
                  ELSE IF fed[i] * Len(window) < SumSeq(window) THEN order("Sell")
                  ELSE None

\* More ticks than the window holds were given: the first full window gave
\* a Buy and the next one, with the oldest price gone, a Sell.
C27_Witness ==
    /\ IsCrossover(strategy)
    /\ Len(fed) = strategy.window_size + 1
    /\ IsSome(signals[Len(fed) - 1])
    /\ Unwrap(signals[Len(fed) - 1]).side = "Buy"
    /\ IsSome(signals[Len(fed)])
    /\ Unwrap(signals[Len(fed)]).side = "Sell"

\* The last min(i, period) of the first i prices given: a rolling window of
\* the trend-following strategy after tick i.
Rolling(i, period) == LastN(FirstN(fed, i), Min2(i, period))

\* After tick i the short mean is above (below) the long mean.
ShortAbove(i) ==
    SumSeq(Rolling(i, strategy.short_period)) * Len(Rolling(i, strategy.long_period))
      > SumSeq(Rolling(i, strategy.long_period)) * Len(Rolling(i, strategy.short_period))
ShortBelow(i) ==
    SumSeq(Rolling(i, strategy.short_period)) * Len(Rolling(i, strategy.long_period))
      < SumSeq(Rolling(i, strategy.long_period)) * Len(Rolling(i, strategy.short_period))

(***************************************************************************)
(* C28.  Over any tick sequence two consecutive orders emitted by the      *)
(* trend-following strategy never have the same side, every order has      *)
(* quantity 10, a Buy is emitted only on a tick where the short mean is    *)
(* above the long mean and a Sell only where it is below.                  *)
(***************************************************************************)
C28_TrendSignalsAlternate ==
    ~IsCrossover(strategy) =>
        /\ Len(signals) = Len(fed)
        /\ \A i \in DOMAIN signals :
             IsSome(signals[i]) =>
                /\ Unwrap(signals[i]).quantity = 10
                /\ Unwrap(signals[i]).side = "Buy" => ShortAbove(i)
                /\ Unwrap(signals[i]).side = "Sell" => ShortBelow(i)
        /\ \A i, j \in DOMAIN signals :
             /\ i < j
             /\ IsSome(signals[i])
             /\ IsSome(signals[j])
             /\ \A k \in (i + 1)..(j - 1) : signals[k] = None
             => Unwrap(signals[i]).side # Unwrap(signals[j]).side

\* A Buy, then a tick on which the short mean is above the long again and
\* nothing is emitted, then a Sell.
C28_Witness ==
    /\ ~IsCrossover(strategy)
    /\ \E i, j, k \in DOMAIN signals :
         /\ i < j /\ j < k
         /\ IsSome(signals[i]) /\ Unwrap(signals[i]).side = "Buy"
         /\ ShortAbove(j) /\ signals[j] = None
         /\ \A m \in (i + 1)..(k - 1) : signals[m] = None
         /\ IsSome(signals[k]) /\ Unwrap(signals[k]).side = "Sell"

(***************************************************************************)
(* C29.  The trend-following strategy emits nothing on a tick before       *)
(* max(long_period, short_period) ticks were seen, and nothing on a tick   *)
(* where the short and the long mean are equal; on such ticks its tracked  *)
(* position does not change.                                               *)
(***************************************************************************)
C29_TrendWarmUpAndEqualMeans ==
    [][/\ ~IsCrossover(strategy)
       /\ ~IsCrossover(strategy')
       /\ Len(fed') = Len(fed) + 1
       /\ \/ Len(fed') < Max2(strategy'.long_period, strategy'.short_period)
          \/ SumSeq(strategy'.short_prices) * Len(strategy'.long_prices)
               = SumSeq(strategy'.long_prices) * Len(strategy'.short_prices)
       => /\ Last(signals') = None
          /\ strategy'.position = strategy.position]_vars

\* Nothing was emitted on a tick on which the means differed, because the
\* long window was not yet full.
C29_Witness ==
    /\ ~IsCrossover(strategy)
    /\ fed # <<>>
    /\ Len(fed) < strategy.long_period
    /\ ShortAbove(Len(fed))
    /\ signals[Len(fed)] = None

(***************************************************************************)
(* C30.  Serializing a binary message succeeds, and deserializing the      *)
(* buffer it gave succeeds and yields the same message type and the same   *)
(* payload bytes.                                                          *)
(***************************************************************************)
C30_BinaryRoundTrip ==
    [][/\ call.op = "serialize"
       /\ call'.op = "deserialize"
       /\ call.ret.ok
       /\ call'.arg[1] = Unwrap(call.ret.value)
       => /\ call'.ret.ok
          /\ Unwrap(call'.ret.value).message_type = call.arg[1].message_type
          /\ Unwrap(call'.ret.value).data = call.arg[1].data]_vars
    /\ [](call.op = "serialize" => call.ret.ok)

\* A message with the largest payload and the byte 255 in type and payload
\* came back from its buffer.
C30_Witness ==
    /\ call.op = "deserialize"
    /\ call.ret.ok
    /\ Unwrap(call.ret.value).message_type = 255
    /\ Len(Unwrap(call.ret.value).data) = MaxPayload
    /\ 255 \in Range(Unwrap(call.ret.value).data)

(***************************************************************************)
(* C31.  Text channel round trip: a message was sent while nothing else    *)
(* was in flight, the peer has echoed all its bytes, and one call of        *)
(* receive_message reads them all: the string it returns is the string     *)
(* that was passed to send_message.                                        *)
(***************************************************************************)
C31_TextRoundTrip ==
    [][/\ call.op = "send_message"
       /\ outbound = <<>>
       /\ Len(inbound) = Len(call.arg[1]) + 1
       /\ call'.op = "receive_message"
       /\ inbound' = <<>>
       => Unwrap(call'.ret) = call.arg[1]]_vars

(***************************************************************************)
(* C32.  Receive is line-oriented: every read the select loop services     *)
(* takes exactly one line off the socket, and when that line is a          *)
(* market-data line its tick is what the aggregator is updated with, once. *)
(***************************************************************************)
C32_OneLinePerReceive ==
    [][Serviced =>
         /\ Len(Consumed) = 1
         /\ Consumed[1].type = "tick" =>
              aggregator' = AggregatorUpdate(aggregator,
                                [price |-> Consumed[1].price,
                                 volume |-> Consumed[1].volume])]_vars

\* The book with the quantity of the entry e set to q, as its set of entries.
AmendedEntries(b, e, q) ==
    (RestingEntries(b) \ {e}) \cup {[e EXCEPT !.order.quantity = q]}

(***************************************************************************)
(* C33.  update_order(id, q) with an id of the index returns Some, and the *)
(* book afterwards is the book before but for the quantity of one entry    *)
(* with that id, which is q: the entry keeps price, side and place in its  *)
(* level, the levels are the same, every other entry is as it was, and so  *)
(* is the index entry of every other id.  With an id that is not in the    *)
(* index it returns None and the book is unchanged.                        *)
(***************************************************************************)
C33_UpdateOrderFrame ==
    [][call'.op = "update_order" =>
         LET order_id == call'.arg[1]
             new_quantity == call'.arg[2]
         IN IF order_id \in DOMAIN order_book.orders_by_id
            THEN /\ call'.ret = Some(Unit)
                 /\ DOMAIN order_book'.bids = DOMAIN order_book.bids
                 /\ DOMAIN order_book'.asks = DOMAIN order_book.asks
                 /\ \E e \in RestingEntries(order_book) :
                      /\ e.order.id = order_id
                      /\ RestingEntries(order_book') =
                            AmendedEntries(order_book, e, new_quantity)
                 /\ DOMAIN order_book'.orders_by_id = DOMAIN order_book.orders_by_id
                 /\ \A other \in DOMAIN order_book.orders_by_id \ {order_id} :
                      order_book'.orders_by_id[other] = order_book.orders_by_id[other]
            ELSE /\ call'.ret = None
                 /\ order_book' = order_book]_vars

\* The second order of a level was amended and the first, of another id, was
\* not.
C33_Witness ==
    /\ call.op = "update_order"
    /\ call.ret = Some(Unit)
    /\ \E e1 \in RestingEntries(order_book), e2 \in RestingEntries(order_book) :
         /\ e1.side = e2.side /\ e1.price = e2.price
         /\ e1.pos = 1 /\ e2.pos = 2
         /\ e2.order.id = call.arg[1] /\ e1.order.id # call.arg[1]
         /\ e2.order.quantity = call.arg[2]
         /\ e1.order.quantity = BOOK_QUANTITY

\* The orders at one price of one side of the book, none when there is no
\* such level.
LevelAt(levels, price) == IF price \in DOMAIN levels THEN levels[price] ELSE <<>>

\* The ids of the orders of a level, in the order of the level.
LevelIds(level) == [i \in 1..Len(level) |-> level[i].id]

\* The level without the orders of one id, the others in their order.
Without(level, order_id) == SelectSeq(level, LAMBDA o : o.id # order_id)

\* One call has kept the priority of a level: the orders that were there are
\* there in the same order, but for those of one id that was removed, and an
\* order that was added is behind them all.
KeepsPriority(old, new) ==
    \/ LevelIds(new) = LevelIds(old)
    \/ Len(new) = Len(old) + 1 /\ SubSeq(new, 1, Len(old)) = old
    \/ Len(new) < Len(old) /\ \E i \in 1..Len(old) : new = Without(old, old[i].id)

\* What get_bids_at_price and get_asks_at_price are to return for a level.
NoneIfEmpty(level) == IF level = <<>> THEN None ELSE Some(level)

C35_GateOnlyShrinks ==
    [][call'.op = "evaluate_order" =>
         /\ risk' = risk
         /\ IsSome(call'.ret) =>
              LET candidate == call'.arg[1]
                  approved == Unwrap(call'.ret)
              IN /\ approved.symbol = candidate.symbol
                 /\ approved.price = candidate.price
                 /\ approved.side = candidate.side
                 /\ 0 < approved.quantity
                 /\ approved.quantity <= candidate.quantity]_vars

\* With a position other than 0, a candidate was approved for less than it
\* asked for.
C35_Witness ==
    /\ call.op = "evaluate_order"
    /\ risk.current_position # 0
    /\ IsSome(call.ret)
    /\ Unwrap(call.ret).quantity < call.arg[1].quantity

(***************************************************************************)
(* C36.  Starting from position 0, with update_position applied only to    *)
(* the order evaluate_order has just approved against the current          *)
(* position, the position stays within the limit on both sides.            *)
(***************************************************************************)
C36_PositionWithinLimit ==
    Abs(risk.current_position) <= risk.max_position_size

\* The position reached the limit of MaxPositionSize on the short side, by a
\* Sell that was cut down to the whole of the limit.
C36_Witness ==
    /\ call.op = "update_position"
    /\ risk.max_position_size = MaxPositionSize
    /\ risk.current_position = -MaxPositionSize
    /\ call.arg[1].side = "Sell"
    /\ call.arg[1].quantity = MaxPositionSize

(***************************************************************************)
(* C37.  The position check is sound for every quantity of the u64 range:  *)
(* when the position is within the limit and evaluate_order approves an    *)
(* order, the position plus (Buy) or minus (Sell) the approved quantity is *)
(* within the limit.                                                       *)
(***************************************************************************)
C37_PositionCheckSound ==
    (/\ call.op = "evaluate_order"
     /\ IsSome(call.ret)
     /\ Abs(risk.current_position) <= risk.max_position_size)
    => LET approved == Unwrap(call.ret)
       IN Abs(IF approved.side = "Buy"
              THEN risk.current_position + approved.quantity
              ELSE risk.current_position - approved.quantity)
            <= risk.max_position_size

\* The order the strategy emits in a step of the engine: the step services
\* a read of one market-data line, and evaluate returns an order for its tick.
Emitted ==
    IF Serviced /\ Len(Consumed) = 1 /\ Consumed[1].type = "tick"
    THEN TrendFollowingEvaluate(strategy, [price |-> Consumed[1].price,
                                           volume |-> Consumed[1].volume]).order
    ELSE None

(***************************************************************************)
(* C38.  While main runs, the position the TrendFollowing strategy tracks  *)
(* changes in exactly the steps in which it emits a signal, to 1 on a Buy  *)
(* and to -1 on a Sell, whether the risk manager approves the order or not *)
(* and whatever the wait for the response brings; so after an emitted Buy  *)
(* the next signal emitted is a Sell, and after a Sell a Buy.              *)
(***************************************************************************)
C38_TrackedPositionFollowsSignals ==
    [][Running' =>
         /\ strategy'.position # strategy.position <=> IsSome(Emitted)
         /\ IsSome(Emitted) =>
              /\ strategy'.position = IF Unwrap(Emitted).side = "Buy" THEN 1 ELSE -1
              /\ strategy.position = 1 => Unwrap(Emitted).side = "Sell"
              /\ strategy.position = -1 => Unwrap(Emitted).side = "Buy"
         /\ pc = "confirm" => strategy' = strategy]_vars

\* A Buy was emitted and no order was ever sent: the risk manager rejected
\* it, and the strategy tracks a long position.
C38_Witness ==
    /\ pc = "select"
    /\ strategy.position = 1
    /\ orderSeq = 0

(***************************************************************************)
(* C39.  While main runs, a reconnect leaves the trading state as it was:  *)
(* from the receive timeout to the SUBSCRIBE_MARKET_DATA on the new        *)
(* connection, aggregator, strategy and risk manager do not change, and    *)
(* the step that makes the connection starts it anew (up, nothing read or  *)
(* written on it yet).  The same holds for the step that serves a          *)
(* heartbeat signal and for the step that reads a HEARTBEAT_ACK, which     *)
(* writes nothing either.                                                  *)
(***************************************************************************)
C39_ReconnectKeepsTradingState ==
    [][Running' =>
         /\ (pc \in {"reconnect", "subscribe"} \/ pc' = "reconnect") =>
              UNCHANGED <<tradeVars, flight, orderSeq>>
         /\ pc = "reconnect" /\ pc' = "subscribe" =>
              link' = "up" /\ inbound' = <<>> /\ outbound' = <<>>
         /\ hbPending' < hbPending => UNCHANGED <<tradeVars, flight, orderSeq>>
         /\ Serviced /\ IsHeartbeatAck(Consumed) =>
              UNCHANGED <<tradeVars, flight, orderSeq, outbound, pc>>]_vars

\* The engine has reconnected and subscribed again, and aggregator, strategy
\* and risk manager hold what they had gathered before: prices and a position.
C39_Witness ==
    /\ pc = "select"
    /\ subscribed
    /\ aggregator.price_window # <<>>
    /\ strategy.long_prices # <<>>
    /\ risk.current_position # 0

(***************************************************************************)
(* C40.  The average of the aggregator is None exactly until the first     *)
(* sample: get_sma is None before any update and Some after every update,  *)
(* whatever the window size, 0 included.                                   *)
(***************************************************************************)
C40_AverageFromFirstSample ==
    GetSma(aggregator) = None <=> fed = <<>>

=============================================================================
